---- MODULE Spec2Model ----
(***************************************************************************)
(* A model of the go-lab API gateway: the backend pool and its health      *)
(* checks, the weighted round-robin balancer, and the middleware chain     *)
(* (Recovery, CORS, Logging, RateLimit) in front of the proxy handler.     *)
(***************************************************************************)
EXTENDS Integers, Sequences, FiniteSets, Bags, TLC

\* ----------------------------------------------------------------- bounds
\* Largest weight a backend is configured with.
MaxWeight == 3

\* The overflow guard of the balancer cursor (loadbalancer.go:61).
OverflowFactor == 1000

\* The failure threshold of markUnhealthy (part_004:471).
MaxFails == 3

\* Ticker rounds of the health loop.
MaxRounds == 3

\* NextBackend calls made while the health loop runs.
MaxCalls == 2

\* X-Forwarded-For lines on a client's request.
MaxLines == 2

\* Other headers on a client's request.
MaxHeaders == 2

\* Gateways a request is chained through.
MaxHops == 2

\* Entries of cors.allowed_origins.
MaxOrigins == 3

\* NextBackend calls issued by the concurrent callers.
MaxConcurrent == 4

\* Largest configured burst of the global rate limiter.
MaxBurst == 2

\* Requests accepted by the gateway.
MaxRequests == 3

\* Refill instants of the token bucket.
MaxRefills == 1

\* The pool of one route, in its declared order (BackendPool.backends).
Pool == <<"A", "B">>

Backends == {Pool[i] : i \in DOMAIN Pool}

\* The request tasks (one goroutine per accepted connection).
Tasks == {1, 2}

VARIABLES
    Weight,     \* Backend.Weight, per backend
    Healthy,    \* Backend.Healthy, per backend
    FailCount,  \* Backend.FailCount, per backend
    bmu,        \* Backend.mu: "free", or "held" by a health probe (write side)
    result,     \* per backend, how its last probe ended: "none", "200", "non200", "error"
    recovered,  \* observation: the backends a 200 probe has brought back from unhealthy
    hlog,       \* per backend, the "marked unhealthy" and "recovered" lines logged
    loop,       \* the health loop: "new", "first", "wait", "round", "exit"
    probe,      \* per backend, its probe goroutine: "idle", "spawned", "inflight", "done"
    cancelled,  \* BackendPool.ctx is cancelled
    rounds,     \* ticker rounds run so far
    current,    \* RoundRobinBalancer.current
    rrmu,       \* RoundRobinBalancer.mu: 0 when free, else the task holding it
    lb,         \* per task, the frame of its NextBackend call
    hist,       \* the backends returned to the sequential caller, most recent last
    calls,      \* the number of NextBackend calls that have returned to a caller
    cfg,        \* the gateway configuration: cors.enabled, rate_limiting.enabled, burst
    tokens,     \* the tokens in the global limiter's bucket
    req,        \* per task, the request it is serving and the response so far
    served,     \* observation: requests accepted so far
    passed,     \* observation: requests the limiter has let through
    rejected,   \* observation: requests the limiter has refused
    refills,    \* observation: tokens added by the passing of time
    srv,        \* Server.Shutdown: "serving", "stopping", "draining", "stopped", "expired"
    inbound,    \* the request a proxy handler is given: its Header map and RemoteAddr
    proxyReq,   \* the Header map of the outbound request the handler builds
    stage,      \* where that handler is: "idle", "received", "created", "sent"
    hop,        \* the gateways the request has passed so far
    client,     \* observation: the request as the original client sent it
    corsConfig, \* CORSConfig.AllowedOrigins as configured
    corsOrigin, \* the Origin header of the request in the CORS middleware
    allowOrigin, \* the Access-Control-Allow-Origin header it set, "unset" before
    rd,         \* per task, the value of rr.current its NextBackend call has read, -1 before
    reads,      \* observation: the values of rr.current read so far, in order
    saves,      \* the log entries whose save goroutine has not ended, as a bag
    delivered,  \* observation: the responses the clients have been sent, as a bag
    saveErrs,   \* observation: the "Failed to save log entry" lines
    adm         \* the /admin/backends handler: 0 before, then the read it makes next

poolVars == <<Weight, Healthy, FailCount, bmu, result, recovered, hlog>>
healthVars == <<loop, probe, cancelled, rounds>>
lbVars == <<current, rrmu, lb>>
gwVars == <<cfg, tokens, req, served, passed, rejected, refills>>
obsVars == <<hist, calls, gwVars>>
lifeVars == <<srv>>
hdrVars == <<inbound, proxyReq, stage, hop, client>>
corsVars == <<corsConfig, corsOrigin, allowOrigin>>
concVars == <<rd, reads>>
logVars == <<saves, delivered, saveErrs>>
admVars == <<adm>>
auxVars == <<concVars, logVars, admVars>>
extVars == <<lifeVars, hdrVars, corsVars, auxVars>>

vars == <<poolVars, healthVars, lbVars, obsVars, extVars>>

\* ------------------------------------------------------- pure operators
\* Config.Validate: a configured weight <= 0 is rewritten to 1.
Validate(w) == IF w <= 0 THEN 1 ELSE w

\* NextBackend's own normalisation of the weight it reads.
BalancerWeight(w) == IF w <= 0 THEN 1 ELSE w

RECURSIVE Repeat(_, _)
Repeat(b, n) == IF n <= 0 THEN <<>> ELSE <<b>> \o Repeat(b, n - 1)

RECURSIVE WeightedInterleaved(_, _)
WeightedInterleaved(healthy, w) ==
    IF \A i \in DOMAIN healthy : w[healthy[i]] <= 0 THEN <<>>
    ELSE LET round == SelectSeq(healthy, LAMBDA b : w[b] > 0)
         IN  round \o WeightedInterleaved(healthy,
                 [b \in DOMAIN w |-> IF w[b] > 0 THEN w[b] - 1 ELSE 0])

\* A plausible slip: the weighted list interleaves the backends.
WeightedBackendsInterleaved(healthy) ==
    WeightedInterleaved(healthy, [b \in Backends |-> BalancerWeight(Weight[b])])

RECURSIVE WeightedBackends(_)
\* The virtual list: each healthy backend repeated `weight` consecutive times.
WeightedBackends(healthy) ==
    IF healthy = <<>> THEN <<>>
    ELSE Repeat(Head(healthy), BalancerWeight(Weight[Head(healthy)]))
             \o WeightedBackends(Tail(healthy))

\* A plausible slip: the index is taken modulo one more than the length.
SelectBackendOffByOne(wb, cur) ==
    LET idx == cur % (Len(wb) + 1)
    IN  IF idx + 1 \in DOMAIN wb THEN wb[idx + 1] ELSE "panic"

\* weightedBackends[rr.current % len(weightedBackends)]; an index outside the
\* slice is a runtime panic.
SelectBackend(wb, cur) ==
    LET idx == cur % Len(wb)
    IN  IF idx + 1 \in DOMAIN wb THEN wb[idx + 1] ELSE "panic"

\* A plausible slip: the cursor is never reset.
AdvanceCursorNoReset(cur, n) == cur + 1

\* A plausible slip: the guard fires only once the cursor exceeds the limit.
AdvanceCursorExceeds(cur, n) ==
    LET c == cur + 1 IN IF c > n * OverflowFactor THEN 0 ELSE c

\* rr.current++, then the overflow guard.
AdvanceCursor(cur, n) ==
    LET c == cur + 1 IN IF c >= n * OverflowFactor THEN 0 ELSE c

\* A plausible slip: the health flag is not consulted.
IsHealthyIgnored(b) == TRUE

\* Backend.IsHealthy: the flag read under the shared side of Backend.mu.
IsHealthy(b) == Healthy[b]

\* ------------------------------------------------------------- balancer
\* `down` is an observation, not program state: the backends that have been
\* unhealthy without interruption since the call began.
NoFrame == [pc |-> "none", i |-> 1, healthy |-> <<>>, out |-> "none", down |-> {}]

\* A task calls NextBackend (ProxyHandler.Handle, first statement).
BeginNextBackend(t) ==
    lb' = [lb EXCEPT ![t] = [pc |-> "lock", i |-> 1, healthy |-> <<>>, out |-> "none",
                             down |-> {b \in Backends : ~Healthy[b]}]]

\* A plausible slip: the cursor is not guarded (no rr.mu.Lock()).
TryLockAlways(mu) == TRUE

\* sync.Mutex.Lock returns only when no task holds the mutex.
TryLock(mu) == mu = 0

\* rr.mu.Lock()
LBLock(t) ==
    /\ lb[t].pc = "lock"
    /\ TryLock(rrmu)
    /\ rrmu' = t
    /\ lb' = [lb EXCEPT ![t].pc = "scan"]
    /\ UNCHANGED <<extVars, poolVars, healthVars, current, obsVars>>

\* One iteration of GetHealthyBackends: IsHealthy on the next backend of the
\* pool, which waits while a probe holds that backend's lock.
LBScan(t) ==
    /\ lb[t].pc = "scan"
    /\ lb[t].i <= Len(Pool)
    /\ LET b == Pool[lb[t].i] IN
        /\ bmu[b] = "free"
        /\ lb' = [lb EXCEPT ![t].i = @ + 1,
                            ![t].healthy = IF IsHealthy(b) THEN Append(@, b) ELSE @]
    /\ UNCHANGED <<extVars, poolVars, healthVars, current, rrmu, obsVars>>

\* The rest of NextBackend: the empty check, the weighted list, the selection,
\* the cursor update and the deferred unlock.
LBSelect(t) ==
    /\ lb[t].pc = "scan"
    /\ lb[t].i > Len(Pool)
    /\ rrmu' = 0
    /\ IF lb[t].healthy = <<>>
       THEN /\ lb' = [lb EXCEPT ![t].pc = "ret", ![t].out = "err"]
            /\ UNCHANGED current
       ELSE LET wb == WeightedBackends(lb[t].healthy) IN
            /\ lb' = [lb EXCEPT ![t].pc = "ret", ![t].out = SelectBackend(wb, current)]
            /\ current' = AdvanceCursor(current, Len(wb))
    /\ UNCHANGED <<extVars, poolVars, healthVars, obsVars>>

\* NextBackend statement by statement, for callers that run concurrently.
\* The snapshot is empty: the call fails, and the deferred unlock runs.
LBEmpty(t) ==
    /\ lb[t].pc = "scan"
    /\ lb[t].i > Len(Pool)
    /\ lb[t].healthy = <<>>
    /\ lb' = [lb EXCEPT ![t].pc = "ret", ![t].out = "err"]
    /\ rrmu' = 0
    /\ UNCHANGED <<lifeVars, hdrVars, corsVars, auxVars, poolVars, healthVars, current,
                   obsVars>>

\* weightedBackends[rr.current % len(weightedBackends)]: the cursor is read.
LBIndex(t) ==
    /\ lb[t].pc = "scan"
    /\ lb[t].i > Len(Pool)
    /\ lb[t].healthy # <<>>
    /\ lb' = [lb EXCEPT ![t].pc = "advance",
                        ![t].out = SelectBackend(WeightedBackends(lb[t].healthy), current)]
    /\ rd' = [rd EXCEPT ![t] = current]
    /\ reads' = Append(reads, current)
    /\ UNCHANGED <<lifeVars, hdrVars, corsVars, logVars, admVars, poolVars, healthVars,
                   current, rrmu, obsVars>>

\* rr.current++, the overflow guard, the return and the deferred unlock.
LBAdvance(t) ==
    /\ lb[t].pc = "advance"
    /\ current' = AdvanceCursor(current, Len(WeightedBackends(lb[t].healthy)))
    /\ lb' = [lb EXCEPT ![t].pc = "ret"]
    /\ rd' = [rd EXCEPT ![t] = -1]
    /\ rrmu' = 0
    /\ UNCHANGED <<lifeVars, hdrVars, corsVars, logVars, admVars, reads, poolVars, healthVars,
                   obsVars>>

\* A task calls NextBackend while others may be inside it.
CallC(t) ==
    /\ lb[t].pc = "none"
    /\ calls + Cardinality({u \in Tasks : lb[u].pc # "none"}) < MaxConcurrent
    /\ BeginNextBackend(t)
    /\ UNCHANGED <<extVars, poolVars, healthVars, current, rrmu, obsVars>>

\* NextBackend has returned to the caller, which keeps what it was given.
ReturnC(t) ==
    /\ lb[t].pc = "ret"
    /\ lb' = [lb EXCEPT ![t] = NoFrame]
    /\ hist' = IF lb[t].out \in Backends THEN Append(hist, lb[t].out) ELSE hist
    /\ calls' = calls + 1
    /\ UNCHANGED <<extVars, poolVars, healthVars, current, rrmu, gwVars>>

\* ---------------------------------------------------------------- gateway
Methods == {"GET", "OPTIONS"}

Paths == {"/api/users", "/health"}

\* The Origin header of a request: absent, or some origin.
Origins == {"", "https://x"}

\* How the upstream call of the proxy handler can end: a response with a
\* status, or an error of client.Do (transport error, deadline).
UpstreamOutcomes == {"200", "500", "error"}

\* `ctx` is the request's context as the outbound call sees it: "live",
\* "cancelled" (the client went away) or "deadline" (the handler's timeout
\* fired). `resp`, `up`, `retAt`, `panicAt` and `sawPanic` are observations:
\* what the upstream answered, what client.Do returned ("build" when the
\* outbound request could not be built), how far Shutdown was when it
\* returned, where a panic struck, and whether a recovered panic was on record
\* when the request arrived.
NoRequest ==
    [pc |-> "idle", method |-> "", path |-> "", origin |-> "", status |-> 0, limitHdr |-> "",
     remainingHdr |-> "", body |-> "", logged |-> 0, backend |-> "", rl |-> "none",
     sent |-> 0, ctx |-> "live", resp |-> "", up |-> "", retAt |-> "", panicAt |-> "",
     sawPanic |-> FALSE]

\* The gateway variables of a pool that is not behind a gateway: no request
\* task exists.
GatewayIdle ==
    /\ cfg = [cors |-> FALSE, rl |-> FALSE, burst |-> 0]
    /\ tokens = 0
    /\ req = <<>>
    /\ served = 0
    /\ passed = 0
    /\ rejected = 0
    /\ refills = 0

\* The header keys of a request as the handler's Header map holds them (in
\* the canonical form net/http gives them).
HeaderKeys ==
    {"Connection", "Keep-Alive", "Proxy-Authenticate", "Proxy-Authorization", "Te",
     "Trailers", "Transfer-Encoding", "Upgrade", "Accept", "X-Forwarded-For",
     "X-Real-Ip", "X-Forwarded-Proto", "X-Forwarded-Host"}

\* A Header map without entries: a key that is absent has no values.
NoHeader == [k \in HeaderKeys |-> <<>>]

\* The header names a client may write on the wire.
WireNames ==
    {"Connection", "Keep-Alive", "Proxy-Authenticate", "Proxy-Authorization", "TE",
     "Trailers", "Transfer-Encoding", "Upgrade", "Accept", "X-Forwarded-For", "X-Real-IP"}

\* Strings are sequences of atoms: an address, a port, or one of "," " " ":".
NoInbound == [Header |-> NoHeader, RemoteAddr |-> <<>>, Host |-> <<>>]

\* No request has been sent to a proxy handler (the three are nil).
HeadersIdle ==
    /\ inbound = <<>>
    /\ proxyReq = <<>>
    /\ stage = "idle"
    /\ hop = 0
    /\ client = <<>>

\* No request is in the CORS middleware.
CORSIdle ==
    /\ corsConfig = <<>>
    /\ corsOrigin = ""
    /\ allowOrigin = "unset"

\* No NextBackend call is followed statement by statement.
ConcIdle ==
    /\ rd = <<>>
    /\ reads = <<>>

\* No request has been made to /admin/backends.
AdminIdle == adm = 0

\* No log entry has been built.
LogIdle ==
    /\ saves = EmptyBag
    /\ delivered = EmptyBag
    /\ saveErrs = 0

\* ------------------------------------------- the sequential caller (SpecLB)
RECURSIVE SumWeights(_)
SumWeights(s) == IF s = <<>> THEN 0 ELSE Weight[Head(s)] + SumWeights(Tail(s))

HealthyPool == SelectSeq(Pool, LAMBDA b : Healthy[b])

\* Calls made by the sequential caller: past one overflow reset and one window.
MaxCallsLB == OverflowFactor * SumWeights(HealthyPool) + SumWeights(HealthyPool) + 1

LastN(s, n) == IF Len(s) <= n THEN s ELSE SubSeq(s, Len(s) - n + 1, Len(s))

CallLB(t) ==
    /\ lb[t].pc = "none"
    /\ calls < MaxCallsLB
    /\ BeginNextBackend(t)
    /\ UNCHANGED <<extVars, poolVars, healthVars, current, rrmu, obsVars>>

ReturnLB(t) ==
    /\ lb[t].pc = "ret"
    /\ lb' = [lb EXCEPT ![t] = NoFrame]
    /\ IF lb[t].out \in Backends
       THEN /\ hist' = LastN(Append(hist, lb[t].out), SumWeights(HealthyPool))
            /\ calls' = calls + 1
       ELSE UNCHANGED <<hist, calls>>
    /\ UNCHANGED <<extVars, poolVars, healthVars, current, rrmu, gwVars>>

InitLB ==
    /\ Weight \in [Backends -> {Validate(w) : w \in 0..MaxWeight}]
    /\ Healthy \in [Backends -> BOOLEAN]
    /\ FailCount = [b \in Backends |-> IF Healthy[b] THEN 0 ELSE MaxFails]
    /\ bmu = [b \in Backends |-> "free"]
    /\ result = [b \in Backends |-> "none"]
    /\ recovered = {}
    /\ hlog = <<>>
    /\ loop = "new"
    /\ probe = [b \in Backends |-> "idle"]
    /\ cancelled = FALSE
    /\ rounds = 0
    /\ current = 0
    /\ rrmu = 0
    /\ lb = [t \in Tasks |-> NoFrame]
    /\ hist = <<>>
    /\ calls = 0
    /\ GatewayIdle
    /\ srv = "serving"
    /\ HeadersIdle
    /\ CORSIdle
    /\ ConcIdle
    /\ LogIdle
    /\ AdminIdle

NextLB ==
    \/ CallLB(1)
    \/ LBLock(1)
    \/ LBScan(1)
    \/ LBSelect(1)
    \/ ReturnLB(1)

SpecLB == InitLB /\ [][NextLB]_vars

\* --------------------------------------------------------- health checks
\* A plausible slip: the counter is not reset on success.
markHealthyKeepsCount(h, fc) == [Healthy |-> TRUE, FailCount |-> fc]

\* Backend.markHealthy
markHealthy(h, fc) == [Healthy |-> TRUE, FailCount |-> 0]

\* A plausible slip: the threshold is compared with > instead of >=.
markUnhealthyLate(h, fc) ==
    [Healthy |-> IF fc + 1 > MaxFails THEN FALSE ELSE h, FailCount |-> fc + 1]

\* Backend.markUnhealthy
markUnhealthy(h, fc) ==
    [Healthy |-> IF fc + 1 >= MaxFails THEN FALSE ELSE h, FailCount |-> fc + 1]

\* A plausible slip: a round probes only the backends that are healthy.
ProbeTargetsHealthyOnly == {b \in Backends : Healthy[b]}

\* checkAllBackends ranges over bp.backends, healthy or not.
ProbeTargets == Backends

\* checkAllBackends, up to wg.Wait(): one goroutine per backend.
SpawnProbes == probe' = [b \in Backends |-> IF b \in ProbeTargets THEN "spawned" ELSE "done"]

\* How a probe can end: status 200, another status, or an error of the HTTP
\* call (transport error, deadline expiry, cancellation of the pool's context).
ProbeOutcomes == {"200", "non200", "error"}

\* BackendPool.Start: the first round runs in the caller.
Start ==
    /\ loop = "new"
    /\ loop' = "first"
    /\ SpawnProbes
    /\ UNCHANGED <<extVars, poolVars, cancelled, rounds, lbVars, obsVars>>

\* checkBackend, backend.mu.Lock(): taken before the probe request is built.
ProbeLock(b) ==
    /\ probe[b] = "spawned"
    /\ bmu[b] = "free"
    /\ bmu' = [bmu EXCEPT ![b] = "held"]
    /\ probe' = [probe EXCEPT ![b] = "inflight"]
    /\ UNCHANGED <<extVars, Weight, Healthy, FailCount, result, recovered, hlog, loop,
                   cancelled, rounds, lbVars, obsVars>>

\* No line has been logged about a backend.
NoLines == [unhealthy |-> 0, recovered |-> 0]

\* markUnhealthy logs "marked unhealthy" when the incremented counter is at
\* the threshold and the flag is still set.
LogsUnhealthy(h, fc) == fc + 1 >= MaxFails /\ h

\* checkBackend logs "recovered" when, after markHealthy has run, FailCount is
\* above 0.
LogsRecovered(m) == m.FailCount > 0

\* A plausible slip: the probe resets the balancer, under rr.mu, before it
\* lets go of the backend.
ProbeMayEndAfterReset(mu) == mu = 0

\* checkBackend takes no lock besides backend.mu: once the HTTP call is over
\* it waits for nothing.
ProbeMayEnd(mu) == TRUE

\* checkBackend from client.Do's return to the deferred unlock.
ProbeFinish(b, o) ==
    /\ probe[b] = "inflight"
    /\ ProbeMayEnd(rrmu)
    /\ cancelled => o = "error"
    /\ LET m == IF o = "200" THEN markHealthy(Healthy[b], FailCount[b])
                ELSE markUnhealthy(Healthy[b], FailCount[b]) IN
        /\ Healthy' = [Healthy EXCEPT ![b] = m.Healthy]
        /\ FailCount' = [FailCount EXCEPT ![b] = m.FailCount]
        /\ hlog' = [hlog EXCEPT
                       ![b].unhealthy =
                           IF o # "200" /\ LogsUnhealthy(Healthy[b], FailCount[b])
                           THEN @ + 1 ELSE @,
                       ![b].recovered = IF o = "200" /\ LogsRecovered(m) THEN @ + 1 ELSE @]
        /\ recovered' = IF ~Healthy[b] /\ m.Healthy THEN recovered \cup {b} ELSE recovered
        /\ lb' = [t \in Tasks |->
                     IF m.Healthy THEN [lb[t] EXCEPT !.down = @ \ {b}] ELSE lb[t]]
    /\ result' = [result EXCEPT ![b] = o]
    /\ bmu' = [bmu EXCEPT ![b] = "free"]
    /\ probe' = [probe EXCEPT ![b] = "done"]
    /\ UNCHANGED <<extVars, Weight, loop, cancelled, rounds, current, rrmu, obsVars>>

\* wg.Wait() returns: the round is over. After the first round Start spawns
\* the loop goroutine and returns.
JoinRound ==
    /\ loop \in {"first", "round"}
    /\ \A b \in Backends : probe[b] = "done"
    /\ loop' = "wait"
    /\ probe' = [b \in Backends |-> "idle"]
    /\ UNCHANGED <<extVars, poolVars, cancelled, rounds, lbVars, obsVars>>

\* A plausible slip: the round is started with `go bp.checkAllBackends()`.
AtSelectDetached(l) == l \in {"wait", "round"}

\* The loop goroutine is at its select: checkAllBackends is called in the
\* loop's own goroutine, which comes back to the select when it returns.
AtSelect(l) == l = "wait"

\* The loop's select takes <-ticker.C (it may, also when ctx.Done() is ready).
Tick ==
    /\ AtSelect(loop)
    /\ rounds < MaxRounds
    /\ loop' = "round"
    /\ rounds' = rounds + 1
    /\ SpawnProbes
    /\ UNCHANGED <<extVars, poolVars, cancelled, lbVars, obsVars>>

\* BackendPool.Stop, called by Server.Shutdown once the server is built.
Stop ==
    /\ loop \in {"wait", "round"}
    /\ ~cancelled
    /\ cancelled' = TRUE
    /\ UNCHANGED <<extVars, poolVars, loop, probe, rounds, lbVars, obsVars>>

\* The loop's select takes <-bp.ctx.Done().
LoopExit ==
    /\ loop = "wait"
    /\ cancelled
    /\ loop' = "exit"
    /\ UNCHANGED <<extVars, poolVars, probe, cancelled, rounds, lbVars, obsVars>>

\* A plausible slip: the route is registered before routeProxy.Start().
RouteRegisteredBeforeStart(l) == TRUE

\* setupRoutes registers a route's handlers after routeProxy.Start() has
\* returned (and the listener opens after NewServer).
RouteRegistered(l) == l \notin {"new", "first"}

\* A request task reaches ProxyHandler.Handle; routes are registered only after
\* Start has returned.
CallH(t) ==
    /\ RouteRegistered(loop)
    /\ lb[t].pc = "none"
    /\ \A u \in Tasks : u < t => lb[u].pc # "none" \/ calls > 0
    /\ calls + Cardinality({u \in Tasks : lb[u].pc # "none"}) < MaxCalls
    /\ BeginNextBackend(t)
    /\ UNCHANGED <<extVars, poolVars, healthVars, current, rrmu, obsVars>>

\* NextBackend has returned to Handle.
ReturnH(t) ==
    /\ lb[t].pc = "ret"
    /\ lb' = [lb EXCEPT ![t] = NoFrame]
    /\ calls' = calls + 1
    /\ UNCHANGED <<extVars, poolVars, healthVars, current, rrmu, hist, gwVars>>

\* The pools of scenarios S1 and S2: weights (1, 1) and (2, 1).
ScenarioWeights ==
    {[b \in Backends |-> Validate(0)],
     [b \in Backends |-> IF b = Pool[1] THEN Validate(2) ELSE Validate(1)]}

InitHealth ==
    /\ Weight \in ScenarioWeights
    /\ Healthy = [b \in Backends |-> TRUE]
    /\ FailCount = [b \in Backends |-> 0]
    /\ bmu = [b \in Backends |-> "free"]
    /\ result = [b \in Backends |-> "none"]
    /\ recovered = {}
    /\ hlog = [b \in Backends |-> NoLines]
    /\ loop = "new"
    /\ probe = [b \in Backends |-> "idle"]
    /\ cancelled = FALSE
    /\ rounds = 0
    /\ current = 0
    /\ rrmu = 0
    /\ lb = [t \in Tasks |-> NoFrame]
    /\ hist = <<>>
    /\ calls = 0
    /\ GatewayIdle
    /\ srv = "serving"
    /\ HeadersIdle
    /\ CORSIdle
    /\ ConcIdle
    /\ LogIdle
    /\ AdminIdle

NextHealth ==
    \/ Start
    \/ \E b \in Backends : ProbeLock(b)
    \/ \E b \in Backends : \E o \in ProbeOutcomes : ProbeFinish(b, o)
    \/ JoinRound
    \/ Tick
    \/ Stop
    \/ LoopExit
    \/ \E t \in Tasks : CallH(t)
    \/ \E t \in Tasks : LBLock(t)
    \/ \E t \in Tasks : LBScan(t)
    \/ \E t \in Tasks : LBSelect(t)
    \/ \E t \in Tasks : ReturnH(t)

SpecHealth == InitHealth /\ [][NextHealth]_vars

\* ------------------------------------------------------------ the locks
\* The tasks inside GetHealthyBackends hold the shared side of BackendPool.mu;
\* no code takes its exclusive side, so RLock on it never waits.
PoolReaders == {t \in Tasks : lb[t].pc = "scan"}

\* Handle, after NextBackend has returned: backend.GetURL() reads under the
\* shared side of the backend's lock, which waits while a probe holds it.
HandleGetURL(t) ==
    /\ lb[t].pc = "ret"
    /\ lb[t].out \in Backends => bmu[lb[t].out] = "free"
    /\ lb' = [lb EXCEPT ![t] = NoFrame]
    /\ calls' = calls + 1
    /\ UNCHANGED <<extVars, poolVars, healthVars, current, rrmu, hist, gwVars>>

\* A request for /admin/backends: GetAllBackends returns the slice (the pool's
\* read lock is released on return).
AdminArrive ==
    /\ RouteRegistered(loop)
    /\ adm = 0
    /\ adm' = 1
    /\ UNCHANGED <<lifeVars, hdrVars, corsVars, concVars, logVars, poolVars, healthVars,
                   lbVars, obsVars>>

\* The backend whose lock the admin handler takes next: GetURL, then
\* IsHealthy, of each backend in turn.
AdminBackend(k) == Pool[(k + 1) \div 2]

\* One read of the admin handler, under the shared side of the backend's lock.
AdminRead ==
    /\ adm \in 1..(2 * Len(Pool))
    /\ bmu[AdminBackend(adm)] = "free"
    /\ adm' = adm + 1
    /\ UNCHANGED <<lifeVars, hdrVars, corsVars, concVars, logVars, poolVars, healthVars,
                   lbVars, obsVars>>

\* The pool before its last ticker round, with every health state two rounds
\* can leave, serving requests.
InitLock ==
    /\ Weight = [b \in Backends |-> Validate(0)]
    /\ Healthy \in [Backends -> BOOLEAN]
    /\ FailCount = [b \in Backends |-> IF Healthy[b] THEN 0 ELSE MaxFails]
    /\ bmu = [b \in Backends |-> "free"]
    /\ result = [b \in Backends |-> IF Healthy[b] THEN "200" ELSE "error"]
    /\ recovered = {}
    /\ hlog = [b \in Backends |-> [NoLines EXCEPT !.unhealthy = IF Healthy[b] THEN 0 ELSE 1]]
    /\ loop = "wait"
    /\ probe = [b \in Backends |-> "idle"]
    /\ cancelled = FALSE
    /\ rounds = MaxRounds - 1
    /\ current = 0
    /\ rrmu = 0
    /\ lb = [t \in Tasks |-> NoFrame]
    /\ hist = <<>>
    /\ calls = 0
    /\ GatewayIdle
    /\ srv = "serving"
    /\ HeadersIdle
    /\ CORSIdle
    /\ ConcIdle
    /\ LogIdle
    /\ AdminIdle

NextLock ==
    \/ Tick
    \/ \E b \in Backends : ProbeLock(b)
    \/ \E b \in Backends : \E o \in ProbeOutcomes : ProbeFinish(b, o)
    \/ JoinRound
    \/ \E t \in Tasks : CallH(t)
    \/ \E t \in Tasks : LBLock(t)
    \/ \E t \in Tasks : LBScan(t)
    \/ \E t \in Tasks : LBSelect(t)
    \/ \E t \in Tasks : HandleGetURL(t)
    \/ AdminArrive
    \/ AdminRead

SpecLock == InitLock /\ [][NextLock]_vars

\* ---------------------------------------------------- concurrent callers
\* A fresh balancer over a pool whose health does not change, called by
\* every task at once.
InitConc ==
    /\ Weight \in ScenarioWeights
    /\ Healthy \in [Backends -> BOOLEAN]
    /\ FailCount = [b \in Backends |-> IF Healthy[b] THEN 0 ELSE MaxFails]
    /\ bmu = [b \in Backends |-> "free"]
    /\ result = [b \in Backends |-> "none"]
    /\ recovered = {}
    /\ hlog = <<>>
    /\ loop = "wait"
    /\ probe = [b \in Backends |-> "idle"]
    /\ cancelled = FALSE
    /\ rounds = 0
    /\ current = 0
    /\ rrmu = 0
    /\ lb = [t \in Tasks |-> NoFrame]
    /\ hist = <<>>
    /\ calls = 0
    /\ GatewayIdle
    /\ srv = "serving"
    /\ HeadersIdle
    /\ CORSIdle
    /\ rd = [t \in Tasks |-> -1]
    /\ reads = <<>>
    /\ LogIdle
    /\ AdminIdle

NextConc ==
    \/ \E t \in Tasks : CallC(t)
    \/ \E t \in Tasks : LBLock(t)
    \/ \E t \in Tasks : LBScan(t)
    \/ \E t \in Tasks : LBEmpty(t)
    \/ \E t \in Tasks : LBIndex(t)
    \/ \E t \in Tasks : LBAdvance(t)
    \/ \E t \in Tasks : ReturnC(t)

SpecConc == InitConc /\ [][NextConc]_vars

\* --------------------------------------------------- the middleware chain
\* A plausible slip: the preflight is not terminated by the CORS middleware.
CORSPreflightIgnored(cors, m) == FALSE

\* CORSMiddleware is installed when cors.enabled and ends an OPTIONS request
\* with AbortWithStatus(204).
CORSPreflight(cors, m) == cors /\ m = "OPTIONS"

\* A plausible slip: the token is granted without being taken.
AllowNoConsume(tok) == [ok |-> tok >= 1, tokens |-> tok]

\* limiter.limiter.Allow(): one token is taken if there is one.
Allow(tok) == [ok |-> tok >= 1, tokens |-> IF tok >= 1 THEN tok - 1 ELSE tok]

\* The bucket refills with time and holds at most `burst` tokens.
RefillTokens(tok, burst) == IF tok + 1 > burst THEN burst ELSE tok + 1

\* A plausible slip: the rate limiter answers 429 without c.Abort().
LimiterStopsNever(allowed) == FALSE

\* RateLimitMiddleware: a refused request is aborted, an allowed one goes on.
LimiterStops(allowed) == ~allowed

\* The routes of the engine: GET /health, and the route's default methods
\* (GET, POST, PUT, DELETE, PATCH) on the proxied path; anything else is 404.
Route(m, p) ==
    IF p = "/health" /\ m = "GET" THEN "health"
    ELSE IF p = "/api/users" /\ m = "GET" THEN "proxy"
    ELSE "none"

\* The response status is fixed by the first write.
WriteStatus(r, code) == IF r.status = 0 THEN [r EXCEPT !.status = code] ELSE r

\* LoggingMiddleware after c.Next(): the record carries c.Writer.Status().
Logged(r) == [r EXCEPT !.logged = r.status, !.pc = "done"]

\* RateLimitMiddleware's refusal: the two headers and the JSON body.
Refused(r) ==
    [WriteStatus(r, 429) EXCEPT !.limitHdr = "100", !.remainingHdr = "0",
                                !.body = "Rate limit exceeded", !.rl = "reject"]

\* The handlers the router runs for a request that passed the middleware.
Routed(r) ==
    CASE Route(r.method, r.path) = "health" ->
             Logged([WriteStatus(r, 200) EXCEPT !.body = "healthy"])
      [] Route(r.method, r.path) = "none" ->
             Logged([WriteStatus(r, 404) EXCEPT !.body = "404 page not found"])
      [] OTHER -> [r EXCEPT !.pc = "proxy"]

\* The listener accepts connections until http.Server.Shutdown closes it,
\* which Server.Shutdown calls after it has stopped the pools.
ListenerOpen(s) == s \in {"serving", "stopping"}

\* A request from the listener through Recovery, CORS, Logging and RateLimit
\* to its route, up to the handler's first suspension point.
Arrive(t, m, p, og) ==
    /\ ListenerOpen(srv)
    /\ req[t].pc = "idle"
    /\ \A u \in Tasks : u < t => req[u].pc # "idle"
    /\ served < MaxRequests
    /\ served' = served + 1
    /\ LET r0 == [NoRequest EXCEPT !.method = m, !.path = p, !.origin = og,
                                   !.sawPanic = \E u \in Tasks : req[u].panicAt # ""]
           a == Allow(tokens)
       IN  IF CORSPreflight(cfg.cors, m)
           THEN /\ req' = [req EXCEPT ![t] = [WriteStatus(r0, 204) EXCEPT !.pc = "done"]]
                /\ UNCHANGED <<tokens, passed, rejected, lb>>
           ELSE IF cfg.rl /\ ~a.ok
           THEN /\ tokens' = a.tokens
                /\ rejected' = rejected + 1
                /\ UNCHANGED passed
                /\ LET r == IF LimiterStops(a.ok) THEN Logged(Refused(r0))
                            ELSE Routed(Refused(r0))
                   IN  /\ req' = [req EXCEPT ![t] = r]
                       /\ IF r.pc = "proxy" THEN BeginNextBackend(t) ELSE UNCHANGED lb
           ELSE /\ tokens' = IF cfg.rl THEN a.tokens ELSE tokens
                /\ passed' = IF cfg.rl THEN passed + 1 ELSE passed
                /\ UNCHANGED rejected
                /\ LET r == Routed([r0 EXCEPT !.rl = IF cfg.rl THEN "pass" ELSE "none"])
                   IN  /\ req' = [req EXCEPT ![t] = r]
                       /\ IF r.pc = "proxy" THEN BeginNextBackend(t) ELSE UNCHANGED lb
    /\ UNCHANGED <<extVars, poolVars, healthVars, current, rrmu, hist, calls, cfg, refills>>

\* A plausible slip: the outbound context is made from context.Background().
DoResultDetached(o, ctx, poolCancelled) == IF ctx = "deadline" THEN "error" ELSE o

\* A plausible slip: the outbound context is made from the pool's context.
DoResultPoolCtx(o, ctx, poolCancelled) ==
    IF ctx # "live" \/ poolCancelled THEN "error" ELSE o

\* What ph.client.Do returns when the upstream answers o: the outbound context
\* is the inbound request's context with the handler's timeout; once it is
\* done the call fails whatever the upstream does.
DoResult(o, ctx, poolCancelled) == IF ctx # "live" THEN "error" ELSE o

\* A plausible slip: a failed upstream call is sent again.
AfterDoErrorRetry(r) ==
    IF r.sent < 2 THEN [r EXCEPT !.sent = @ + 1, !.pc = "upstream"]
    ELSE Logged([WriteStatus(r, 502) EXCEPT !.body = "Backend request failed"])

\* Handle when client.Do has failed: 502 and return.
AfterDoError(r) == Logged([WriteStatus(r, 502) EXCEPT !.body = "Backend request failed"])

\* A plausible slip: the balancer's unlock is not deferred.
UnwindKeepsLock(t, mu) == mu

\* A panic unwinds the task's stack: NextBackend's deferred rr.mu.Unlock()
\* runs if the task is inside NextBackend.
Unwind(t, mu) == IF mu = t THEN 0 ELSE mu

\* ProxyHandler.Handle after NextBackend has returned: 503 without a backend;
\* else the backend's URL is read (under the shared side of its lock), the
\* outbound request is built (500 if that fails) and issued.
HandleSelected(t, built) ==
    /\ req[t].pc = "proxy"
    /\ lb[t].pc = "ret"
    /\ lb[t].out \in Backends => bmu[lb[t].out] = "free"
    /\ lb[t].out \notin Backends => built
    /\ lb' = [lb EXCEPT ![t] = NoFrame]
    /\ req' = [req EXCEPT ![t] =
                  IF lb[t].out \notin Backends
                  THEN Logged([WriteStatus(@, 503) EXCEPT
                                   !.body = "No backend servers available"])
                  ELSE IF ~built
                  THEN Logged([WriteStatus(@, 500) EXCEPT
                                   !.backend = lb[t].out, !.up = "build",
                                   !.body = "Failed to create proxy request"])
                  ELSE [@ EXCEPT !.backend = lb[t].out, !.sent = @ + 1, !.pc = "upstream"]]
    /\ UNCHANGED <<extVars, poolVars, healthVars, current, rrmu, hist, calls, cfg, tokens,
                   served, passed, rejected, refills>>

\* A plausible slip: a backend whose call failed is taken out of rotation by
\* the handler (passive health checking).
ReportOutcomeMarksDown(h, b, res) == IF res = "error" THEN [h EXCEPT ![b] = FALSE] ELSE h

\* Handle reports no outcome to the pool: it reads the backend's URL and
\* nothing else of it.
ReportOutcome(h, b, res) == h

\* client.Do returns: 502 on an error, else the upstream's status and body.
UpstreamReturn(t, o) ==
    /\ req[t].pc = "upstream"
    /\ LET res == DoResult(o, req[t].ctx, cancelled)
           r == [req[t] EXCEPT !.up = res, !.retAt = srv,
                               !.resp = IF req[t].ctx = "live" THEN o ELSE ""]
       IN  /\ req' = [req EXCEPT ![t] =
                          IF res = "error" THEN AfterDoError(r)
                          ELSE Logged([WriteStatus(r, IF res = "200" THEN 200 ELSE 500) EXCEPT
                                           !.body = "upstream"])]
           /\ Healthy' = ReportOutcome(Healthy, req[t].backend, res)
    /\ UNCHANGED <<extVars, Weight, FailCount, bmu, result, recovered, hlog, healthVars,
                   lbVars, hist, calls, cfg, tokens, served, passed, rejected, refills>>

\* The handler panics, inside NextBackend (with the balancer's mutex held) or
\* while the upstream call is pending, before it has written a response: the
\* panic unwinds through LoggingMiddleware to RecoveryMiddleware, which
\* answers 500.
Panic(t) ==
    /\ \/ req[t].pc = "proxy" /\ lb[t].pc = "scan"
       \/ req[t].pc = "upstream"
    /\ rrmu' = Unwind(t, rrmu)
    /\ lb' = [lb EXCEPT ![t] = NoFrame]
    /\ req' = [req EXCEPT ![t] =
                  [WriteStatus(@, 500) EXCEPT
                       !.body = "Panic:", !.pc = "done",
                       !.panicAt = IF req[t].pc = "proxy" THEN lb[t].pc ELSE "upstream"]]
    /\ UNCHANGED <<extVars, poolVars, healthVars, current, hist, calls, cfg, tokens,
                   served, passed, rejected, refills>>

\* The response has been written and the request's task ends.
Finish(t) ==
    /\ req[t].pc = "done"
    /\ req' = [req EXCEPT ![t] = NoRequest]
    /\ UNCHANGED <<extVars, poolVars, healthVars, lbVars, hist, calls, cfg, tokens,
                   served, passed, rejected, refills>>

\* Time passes by one token's worth.
Refill ==
    /\ cfg.rl
    /\ refills < MaxRefills
    /\ refills' = refills + 1
    /\ tokens' = RefillTokens(tokens, cfg.burst)
    /\ UNCHANGED <<extVars, poolVars, healthVars, lbVars, hist, calls, cfg, req,
                   served, passed, rejected>>

\* The server is built and serving; the pool (that of scenario S1) is between
\* two health rounds.
Init ==
    /\ Weight = [b \in Backends |-> Validate(0)]
    /\ Healthy \in [Backends -> BOOLEAN]
    /\ FailCount = [b \in Backends |-> IF Healthy[b] THEN 0 ELSE MaxFails]
    /\ bmu = [b \in Backends |-> "free"]
    /\ result = [b \in Backends |-> IF Healthy[b] THEN "200" ELSE "error"]
    /\ recovered = {}
    /\ hlog = <<>>
    /\ loop = "wait"
    /\ probe = [b \in Backends |-> "idle"]
    /\ cancelled = FALSE
    /\ rounds = 0
    /\ current = 0
    /\ rrmu = 0
    /\ lb = [t \in Tasks |-> NoFrame]
    /\ hist = <<>>
    /\ calls = 0
    /\ cfg \in {c \in [cors : BOOLEAN, rl : BOOLEAN, burst : 0..MaxBurst] :
                   ~c.rl => c.burst = 0}
    /\ tokens = cfg.burst
    /\ req = [t \in Tasks |-> NoRequest]
    /\ served = 0
    /\ passed = 0
    /\ rejected = 0
    /\ refills = 0
    /\ srv = "serving"
    /\ HeadersIdle
    /\ CORSIdle
    /\ ConcIdle
    /\ LogIdle
    /\ AdminIdle

\* The gateway with its middleware chain; its outbound requests can always be
\* built (SpecLife has the failure).
Next ==
    \/ \E t \in Tasks : \E m \in Methods : \E p \in Paths : \E og \in Origins :
           Arrive(t, m, p, og)
    \/ \E t \in Tasks : LBLock(t)
    \/ \E t \in Tasks : LBScan(t)
    \/ \E t \in Tasks : LBSelect(t)
    \/ \E t \in Tasks : HandleSelected(t, TRUE)
    \/ \E t \in Tasks : \E o \in UpstreamOutcomes : UpstreamReturn(t, o)
    \/ \E t \in Tasks : Panic(t)
    \/ \E t \in Tasks : Finish(t)
    \/ Refill

Spec == Init /\ [][Next]_vars

\* ------------------------------------------------- shutdown and cancellation
\* The client goes away while its request is in the proxy handler: net/http
\* cancels the request's context.
ClientDisconnect(t) ==
    /\ req[t].pc \in {"proxy", "upstream"}
    /\ req[t].ctx = "live"
    /\ req' = [req EXCEPT ![t].ctx = "cancelled"]
    /\ UNCHANGED <<extVars, poolVars, healthVars, lbVars, hist, calls, cfg, tokens,
                   served, passed, rejected, refills>>

\* The deadline of context.WithTimeout(c.Request.Context(), ph.timeout)
\* passes while the outbound call is pending.
TimeoutExpires(t) ==
    /\ req[t].pc = "upstream"
    /\ req[t].ctx = "live"
    /\ req' = [req EXCEPT ![t].ctx = "deadline"]
    /\ UNCHANGED <<extVars, poolVars, healthVars, lbVars, hist, calls, cfg, tokens,
                   served, passed, rejected, refills>>

\* Server.Shutdown, its loop over the route proxies: rp.Stop() cancels the
\* pool's context.
ShutdownBegin ==
    /\ srv = "serving"
    /\ srv' = "stopping"
    /\ cancelled' = TRUE
    /\ UNCHANGED <<hdrVars, corsVars, auxVars, poolVars, loop, probe, rounds, lbVars, obsVars>>

\* s.httpServer.Shutdown(ctx) closes the listener.
CloseListener ==
    /\ srv = "stopping"
    /\ srv' = "draining"
    /\ UNCHANGED <<hdrVars, corsVars, auxVars, poolVars, healthVars, lbVars, obsVars>>

\* s.httpServer.Shutdown(ctx) finds every connection idle and returns nil.
ShutdownReturn ==
    /\ srv = "draining"
    /\ \A t \in Tasks : req[t].pc = "idle"
    /\ srv' = "stopped"
    /\ UNCHANGED <<hdrVars, corsVars, auxVars, poolVars, healthVars, lbVars, obsVars>>

\* The deadline of Shutdown's context passes while a handler is running:
\* s.httpServer.Shutdown(ctx) returns ctx.Err() and Server.Shutdown returns
\* it wrapped; nothing is done to the handlers.
DeadlineExpires ==
    /\ srv = "draining"
    /\ \E t \in Tasks : req[t].pc # "idle"
    /\ srv' = "expired"
    /\ UNCHANGED <<hdrVars, corsVars, auxVars, poolVars, healthVars, lbVars, obsVars>>

\* A gateway without CORS and rate limiting, serving; its pool is between two
\* health rounds.
InitLife ==
    /\ Weight = [b \in Backends |-> Validate(0)]
    /\ Healthy \in [Backends -> BOOLEAN]
    /\ FailCount = [b \in Backends |-> IF Healthy[b] THEN 0 ELSE MaxFails]
    /\ bmu = [b \in Backends |-> "free"]
    /\ result = [b \in Backends |-> IF Healthy[b] THEN "200" ELSE "error"]
    /\ recovered = {}
    /\ hlog = <<>>
    /\ loop = "wait"
    /\ probe = [b \in Backends |-> "idle"]
    /\ cancelled = FALSE
    /\ rounds = 0
    /\ current = 0
    /\ rrmu = 0
    /\ lb = [t \in Tasks |-> NoFrame]
    /\ hist = <<>>
    /\ calls = 0
    /\ cfg = [cors |-> FALSE, rl |-> FALSE, burst |-> 0]
    /\ tokens = 0
    /\ req = [t \in Tasks |-> NoRequest]
    /\ served = 0
    /\ passed = 0
    /\ rejected = 0
    /\ refills = 0
    /\ srv = "serving"
    /\ HeadersIdle
    /\ CORSIdle
    /\ ConcIdle
    /\ LogIdle
    /\ AdminIdle

NextLife ==
    \/ \E t \in Tasks : \E m \in Methods : \E p \in Paths : Arrive(t, m, p, "")
    \/ \E t \in Tasks : LBLock(t)
    \/ \E t \in Tasks : LBScan(t)
    \/ \E t \in Tasks : LBSelect(t)
    \/ \E t \in Tasks : \E built \in BOOLEAN : HandleSelected(t, built)
    \/ \E t \in Tasks : \E o \in UpstreamOutcomes : UpstreamReturn(t, o)
    \/ \E t \in Tasks : Panic(t)
    \/ \E t \in Tasks : Finish(t)
    \/ \E t \in Tasks : ClientDisconnect(t)
    \/ \E t \in Tasks : TimeoutExpires(t)
    \/ ShutdownBegin
    \/ CloseListener
    \/ ShutdownReturn
    \/ DeadlineExpires
    \/ LoopExit

SpecLife == InitLife /\ [][NextLife]_vars

\* ------------------------------------------------------- log persistence
\* A plausible slip: the backend is read from the context only on success.
BackendStrOnSuccess(r) == IF r.status >= 400 THEN "" ELSE r.backend

\* LoggingMiddleware: c.Get("backend"), "" when the attribute was never set.
BackendStr(r) == r.backend

\* The entry LoggingMiddleware builds after c.Next() has returned.
LogEntry(r) == [StatusCode |-> r.logged, Backend |-> BackendStr(r)]

\* A plausible slip: store.Save is called in the middleware itself, which
\* then shares the sink with the saves before it.
WaitsForSaveInline(pending) == pending # EmptyBag

\* The save is started with `go`: the middleware does not wait for it.
WaitsForSave(pending) == FALSE

\* The tail of LoggingMiddleware: the entry is handed to a new goroutine, the
\* summary line is printed, the chain returns and the response is complete.
LoggingReturn(t) ==
    /\ req[t].pc = "done"
    /\ ~WaitsForSave(saves)
    /\ saves' = IF req[t].logged # 0 THEN saves (+) SetToBag({LogEntry(req[t])}) ELSE saves
    /\ delivered' = delivered (+) SetToBag({[status |-> req[t].status, body |-> req[t].body]})
    /\ req' = [req EXCEPT ![t] = NoRequest]
    /\ UNCHANGED <<lifeVars, hdrVars, corsVars, concVars, admVars, saveErrs, poolVars,
                   healthVars, lbVars, hist, calls, cfg, tokens, served, passed, rejected,
                   refills>>

\* store.Save returns in its goroutine, with an error or without; a Save that
\* never returns is a goroutine for which this step is never taken.
SaveReturn(e, ok) ==
    /\ BagIn(e, saves)
    /\ saves' = saves (-) SetToBag({e})
    /\ saveErrs' = IF ok THEN saveErrs ELSE saveErrs + 1
    /\ UNCHANGED <<lifeVars, hdrVars, corsVars, concVars, admVars, delivered, poolVars,
                   healthVars, lbVars, obsVars>>

\* The gateways whose log entries are followed: without CORS, with the
\* limiter off or with a bucket of one token.
LogConfigs ==
    {[cors |-> FALSE, rl |-> FALSE, burst |-> 0], [cors |-> FALSE, rl |-> TRUE, burst |-> 1]}

InitLog ==
    /\ Weight = [b \in Backends |-> Validate(0)]
    /\ Healthy \in [Backends -> BOOLEAN]
    /\ FailCount = [b \in Backends |-> IF Healthy[b] THEN 0 ELSE MaxFails]
    /\ bmu = [b \in Backends |-> "free"]
    /\ result = [b \in Backends |-> IF Healthy[b] THEN "200" ELSE "error"]
    /\ recovered = {}
    /\ hlog = <<>>
    /\ loop = "wait"
    /\ probe = [b \in Backends |-> "idle"]
    /\ cancelled = FALSE
    /\ rounds = 0
    /\ current = 0
    /\ rrmu = 0
    /\ lb = [t \in Tasks |-> NoFrame]
    /\ hist = <<>>
    /\ calls = 0
    /\ cfg \in LogConfigs
    /\ tokens = cfg.burst
    /\ req = [t \in Tasks |-> NoRequest]
    /\ served = 0
    /\ passed = 0
    /\ rejected = 0
    /\ refills = 0
    /\ srv = "serving"
    /\ HeadersIdle
    /\ CORSIdle
    /\ ConcIdle
    /\ LogIdle
    /\ AdminIdle

NextLog ==
    \/ \E t \in Tasks : \E m \in Methods : Arrive(t, m, "/api/users", "")
    \/ \E t \in Tasks : LBLock(t)
    \/ \E t \in Tasks : LBScan(t)
    \/ \E t \in Tasks : LBSelect(t)
    \/ \E t \in Tasks : \E built \in BOOLEAN : HandleSelected(t, built)
    \/ \E t \in Tasks : \E o \in UpstreamOutcomes : UpstreamReturn(t, o)
    \/ \E t \in Tasks : LoggingReturn(t)
    \/ \E e \in BagToSet(saves) : \E ok \in BOOLEAN : SaveReturn(e, ok)

SpecLog == InitLog /\ [][NextLog]_vars

\* ------------------------------------------- requests beside the health loop
\* The gateway serving while the pool's health loop runs: every backend is in
\* rotation, after no failed round or after MaxFails - 1 of them, and one
\* ticker round is left.
InitPassive ==
    /\ Weight = [b \in Backends |-> Validate(0)]
    /\ Healthy = [b \in Backends |-> TRUE]
    /\ FailCount \in [Backends -> {0, MaxFails - 1}]
    /\ bmu = [b \in Backends |-> "free"]
    /\ result = [b \in Backends |-> IF FailCount[b] = 0 THEN "200" ELSE "error"]
    /\ recovered = {}
    /\ hlog = [b \in Backends |-> NoLines]
    /\ loop = "wait"
    /\ probe = [b \in Backends |-> "idle"]
    /\ cancelled = FALSE
    /\ rounds = MaxRounds - 1
    /\ current = 0
    /\ rrmu = 0
    /\ lb = [t \in Tasks |-> NoFrame]
    /\ hist = <<>>
    /\ calls = 0
    /\ cfg = [cors |-> FALSE, rl |-> FALSE, burst |-> 0]
    /\ tokens = 0
    /\ req = [t \in Tasks |-> NoRequest]
    /\ served = 0
    /\ passed = 0
    /\ rejected = 0
    /\ refills = 0
    /\ srv = "serving"
    /\ HeadersIdle
    /\ CORSIdle
    /\ ConcIdle
    /\ LogIdle
    /\ AdminIdle

NextPassive ==
    \/ Tick
    \/ \E b \in Backends : ProbeLock(b)
    \/ \E b \in Backends : \E o \in ProbeOutcomes : ProbeFinish(b, o)
    \/ JoinRound
    \/ \E t \in Tasks : Arrive(t, "GET", "/api/users", "")
    \/ \E t \in Tasks : LBLock(t)
    \/ \E t \in Tasks : LBScan(t)
    \/ \E t \in Tasks : LBSelect(t)
    \/ \E t \in Tasks : HandleSelected(t, TRUE)
    \/ \E t \in Tasks : TimeoutExpires(t)
    \/ \E t \in Tasks : \E o \in UpstreamOutcomes : UpstreamReturn(t, o)
    \/ \E t \in Tasks : Finish(t)
    \/ AdminArrive
    \/ AdminRead

SpecPassive == InitPassive /\ [][NextPassive]_vars

\* ----------------------------------------------------------- construction
\* The backend URLs of a route in the configuration file: one that url.Parse
\* accepts, one it rejects (missing protocol scheme), and the empty string.
GoodURL == "http://a:9001"

BadURL == ":9002"

\* url.Parse as NewBackend uses it: whether it returns an error.
ParseFails(u) == u = BadURL

\* Config.Routes, each route given by its list of backend URLs: one or two
\* routes, of which at most the first gets as far as a started pool.
RouteConfigs ==
    {<<>>,
     << <<GoodURL>> >>,
     << <<BadURL>> >>,
     << <<>> >>,
     << <<"">> >>,
     << <<GoodURL>>, <<BadURL>> >>,
     << <<GoodURL>>, <<>> >>,
     << <<GoodURL>>, <<"">> >>,
     << <<BadURL>>, <<GoodURL>> >>}

\* Config.Validate, its errors: no route, a route without backends, a backend
\* with an empty URL.
ValidateFails(routes) ==
    \/ routes = <<>>
    \/ \E i \in 1..Len(routes) :
           \/ routes[i] = <<>>
           \/ \E j \in 1..Len(routes[i]) : routes[i][j] = ""

\* NewRouteProxy, its errors: no backend URL, or one NewBackend cannot parse.
NewRouteProxyFails(urls) ==
    \/ urls = <<>>
    \/ \E j \in 1..Len(urls) : ParseFails(urls[j])

\* len(s.routeProxies): the routes setupRoutes has built and started.
Built == IF loop \in {"new", "first"} THEN 0 ELSE 1

\* NewServer up to setupRoutes: config.Validate() returns an error, and
\* NewServer returns it, or it passes.
NewServerValidate ==
    /\ srv = "new"
    /\ srv' = IF ValidateFails(cfg.routes) THEN "failed" ELSE "building"
    /\ UNCHANGED <<hdrVars, corsVars, auxVars, poolVars, healthVars, lbVars, obsVars>>

\* setupRoutes, one iteration that gets past NewRouteProxy: routeProxy.Start()
\* is called (its first round runs in the caller).
SetupRouteStart ==
    /\ srv = "building"
    /\ Built < Len(cfg.routes)
    /\ ~NewRouteProxyFails(cfg.routes[Built + 1])
    /\ Start

\* setupRoutes, one iteration in which NewRouteProxy fails: setupRoutes returns
\* the error and NewServer returns (nil, err); nothing else is done.
SetupRouteFails ==
    /\ srv = "building"
    /\ loop # "first"
    /\ Built < Len(cfg.routes)
    /\ NewRouteProxyFails(cfg.routes[Built + 1])
    /\ srv' = "failed"
    /\ UNCHANGED <<hdrVars, corsVars, auxVars, poolVars, healthVars, lbVars, obsVars>>

\* setupRoutes has built every route: NewServer returns the server, which is
\* then started.
NewServerReturns ==
    /\ srv = "building"
    /\ loop # "first"
    /\ Built = Len(cfg.routes)
    /\ srv' = "serving"
    /\ UNCHANGED <<hdrVars, corsVars, auxVars, poolVars, healthVars, lbVars, obsVars>>

\* NewServer has been called with a configuration.
InitBuild ==
    /\ Weight = [b \in Backends |-> Validate(0)]
    /\ Healthy = [b \in Backends |-> TRUE]
    /\ FailCount = [b \in Backends |-> 0]
    /\ bmu = [b \in Backends |-> "free"]
    /\ result = [b \in Backends |-> "none"]
    /\ recovered = {}
    /\ hlog = [b \in Backends |-> NoLines]
    /\ loop = "new"
    /\ probe = [b \in Backends |-> "idle"]
    /\ cancelled = FALSE
    /\ rounds = 0
    /\ current = 0
    /\ rrmu = 0
    /\ lb = [t \in Tasks |-> NoFrame]
    /\ hist = <<>>
    /\ calls = 0
    /\ cfg \in {[cors |-> FALSE, rl |-> FALSE, burst |-> 0, routes |-> r] : r \in RouteConfigs}
    /\ tokens = 0
    /\ req = <<>>
    /\ served = 0
    /\ passed = 0
    /\ rejected = 0
    /\ refills = 0
    /\ srv = "new"
    /\ HeadersIdle
    /\ CORSIdle
    /\ ConcIdle
    /\ LogIdle
    /\ AdminIdle

NextBuild ==
    \/ NewServerValidate
    \/ SetupRouteStart
    \/ SetupRouteFails
    \/ NewServerReturns
    \/ \E b \in Backends : ProbeLock(b)
    \/ \E b \in Backends : \E o \in ProbeOutcomes : ProbeFinish(b, o)
    \/ JoinRound
    \/ Tick
    \/ ShutdownBegin
    \/ LoopExit

SpecBuild == InitBuild /\ [][NextBuild]_vars

\* ------------------------------------------------------ forwarding headers
\* textproto.CanonicalMIMEHeaderKey, by which net/http keys the Header map.
CanonicalKey(n) ==
    CASE n = "TE" -> "Te"
      [] n = "X-Real-IP" -> "X-Real-Ip"
      [] OTHER -> n

\* The Header map net/http gives the handler for the headers on the wire.
ReadHeader(w) ==
    [k \in HeaderKeys |->
        IF \E n \in WireNames : CanonicalKey(n) = k
        THEN w[CHOOSE n \in WireNames : CanonicalKey(n) = k]
        ELSE <<>>]

\* http.Header.Get: the first value of the key, "" when it has none.
Get(h, k) == IF h[k] = <<>> THEN <<>> ELSE h[k][1]

\* strings.Split(s, ",")[0]
RECURSIVE FirstPart(_)
FirstPart(s) ==
    IF s = <<>> \/ Head(s) = "," THEN <<>> ELSE <<Head(s)>> \o FirstPart(Tail(s))

RECURSIVE TrimLeft(_)
TrimLeft(s) == IF s # <<>> /\ Head(s) = " " THEN TrimLeft(Tail(s)) ELSE s

RECURSIVE TrimRight(_)
TrimRight(s) ==
    IF s # <<>> /\ s[Len(s)] = " " THEN TrimRight(SubSeq(s, 1, Len(s) - 1)) ELSE s

\* strings.TrimSpace
TrimSpace(s) == TrimRight(TrimLeft(s))

\* strings.Join(v, ", ")
RECURSIVE Join(_)
Join(v) ==
    IF v = <<>> THEN <<>>
    ELSE IF Len(v) = 1 THEN v[1]
    ELSE v[1] \o <<",", " ">> \o Join(Tail(v))

\* net.SplitHostPort(addr), then the fallback to the whole address on error.
HostOf(a) ==
    IF \E i \in DOMAIN a : a[i] = ":"
    THEN SubSeq(a, 1, (CHOOSE i \in DOMAIN a : a[i] = ":" /\ \A j \in DOMAIN a : a[j] = ":" => j <= i) - 1)
    ELSE a

\* A plausible slip: the first element is not trimmed.
getClientIPNoTrim(r) ==
    IF Get(r.Header, "X-Forwarded-For") # <<>>
    THEN FirstPart(Get(r.Header, "X-Forwarded-For"))
    ELSE IF Get(r.Header, "X-Real-Ip") # <<>> THEN Get(r.Header, "X-Real-Ip")
    ELSE HostOf(r.RemoteAddr)

\* getClientIP
getClientIP(r) ==
    IF Get(r.Header, "X-Forwarded-For") # <<>>
    THEN TrimSpace(FirstPart(Get(r.Header, "X-Forwarded-For")))
    ELSE IF Get(r.Header, "X-Real-Ip") # <<>> THEN Get(r.Header, "X-Real-Ip")
    ELSE HostOf(r.RemoteAddr)

\* A plausible slip: the table is keyed by the names as RFC 7230 writes them.
isHopByHopHeaderAsWritten(k) ==
    k \in {"Connection", "Keep-Alive", "Proxy-Authenticate", "Proxy-Authorization", "TE",
           "Trailers", "Transfer-Encoding", "Upgrade"}

\* isHopByHopHeader
isHopByHopHeader(k) ==
    k \in {"Connection", "Keep-Alive", "Proxy-Authenticate", "Proxy-Authorization", "Te",
           "Trailers", "Transfer-Encoding", "Upgrade"}

\* createProxyRequest: the Header of the new request.
createProxyRequest(r) ==
    [k \in HeaderKeys |-> IF isHopByHopHeader(k) THEN <<>> ELSE r.Header[k]]

\* setForwardingHeaders (the inbound request carries no TLS state).
setForwardingHeaders(p, r) ==
    LET prior == p["X-Forwarded-For"]
        ip == getClientIP(r)
        xff == IF prior # <<>> THEN Join(prior) \o <<",", " ">> \o ip ELSE ip
    IN  [p EXCEPT !["X-Forwarded-For"] = <<xff>>,
                  !["X-Real-Ip"] = <<getClientIP(r)>>,
                  !["X-Forwarded-Proto"] = << <<"http">> >>,
                  !["X-Forwarded-Host"] = <<r.Host>>]

\* The address from which gateway n connects to the next hop.
GatewayAddr(n) ==
    <<CASE n = 1 -> "g1" [] n = 2 -> "g2" [] OTHER -> "g3", ":", "80">>

\* The Host under which gateway n is addressed.
GatewayHost(n) == <<CASE n = 1 -> "h1" [] n = 2 -> "h2" [] OTHER -> "h3">>

\* The first gateway reads the client's request.
Receive ==
    /\ stage = "idle"
    /\ hop = 0
    /\ hop' = 1
    /\ stage' = "received"
    /\ inbound' = [Header |-> ReadHeader(client.Wire), RemoteAddr |-> client.RemoteAddr,
                   Host |-> client.Host]
    /\ UNCHANGED <<proxyReq, client, corsVars, auxVars, lifeVars, poolVars, healthVars, lbVars,
                   obsVars>>

\* Handle calls createProxyRequest.
CreateProxyRequest ==
    /\ stage = "received"
    /\ stage' = "created"
    /\ proxyReq' = createProxyRequest(inbound)
    /\ UNCHANGED <<inbound, hop, client, corsVars, auxVars, lifeVars, poolVars, healthVars, lbVars,
                   obsVars>>

\* Handle calls setForwardingHeaders and sends the request.
SetForwardingHeaders ==
    /\ stage = "created"
    /\ stage' = "sent"
    /\ proxyReq' = setForwardingHeaders(proxyReq, inbound)
    /\ UNCHANGED <<inbound, hop, client, corsVars, auxVars, lifeVars, poolVars, healthVars, lbVars,
                   obsVars>>

\* The backend of this gateway is another gateway, which reads the request.
Forward ==
    /\ stage = "sent"
    /\ hop < MaxHops
    /\ hop' = hop + 1
    /\ stage' = "received"
    /\ inbound' = [Header |-> proxyReq, RemoteAddr |-> GatewayAddr(hop),
                   Host |-> GatewayHost(hop + 1)]
    /\ proxyReq' = NoHeader
    /\ UNCHANGED <<client, corsVars, auxVars, lifeVars, poolVars, healthVars, lbVars, obsVars>>

\* The values a client may give X-Forwarded-For.
XFFValues ==
    {<<>>, <<"p">>, <<" ", "p", " ">>, <<"p", ",", " ", "q">>, <<" ", ",", "q">>}

RECURSIVE SeqsUpTo(_, _)
SeqsUpTo(S, n) ==
    IF n = 0 THEN {<<>>}
    ELSE SeqsUpTo(S, n - 1) \cup {Append(q, x) : q \in SeqsUpTo(S, n - 1), x \in S}

\* X-Real-IP: absent, empty, or an address.
XRIHeaders == {<<>>, << <<>> >>, << <<"r">> >>}

\* The peer address as net/http reports it, and one without a port.
RemoteAddrs == {<<"c", ":", "80">>, <<"c">>}

OtherNames == WireNames \ {"X-Forwarded-For", "X-Real-IP"}

\* One value, or two values of the same header.
OtherValues == {<< <<"v">> >>, << <<"v">>, <<"w">> >>}

\* The client's headers besides the forwarding ones: at most MaxHeaders of them.
OtherHeaders ==
    {o \in [OtherNames -> {<<>>} \cup OtherValues] :
        Cardinality({n \in OtherNames : o[n] # <<>>}) <= MaxHeaders}

WireOf(x, y, o) ==
    [n \in WireNames |->
        CASE n = "X-Forwarded-For" -> x
          [] n = "X-Real-IP" -> y
          [] OTHER -> o[n]]

\* The requests a client may send: every forwarding header with one hop-by-hop
\* header or none, or every choice of other headers with a plain
\* X-Forwarded-For or none.
ClientRequests ==
    {[Wire |-> WireOf(x, y, o), RemoteAddr |-> a, Host |-> GatewayHost(1)] :
        x \in SeqsUpTo(XFFValues, MaxLines), y \in XRIHeaders, a \in RemoteAddrs,
        o \in {h \in OtherHeaders : \A n \in OtherNames : h[n] # <<>> =>
                                        (n = "Connection" /\ h[n] = << <<"v">> >>)}}
    \cup
    {[Wire |-> WireOf(x, <<>>, o), RemoteAddr |-> <<"c", ":", "80">>,
      Host |-> GatewayHost(1)] :
        x \in {<<>>, << <<"p">> >>}, o \in OtherHeaders}

InitHdr ==
    /\ Weight = [b \in Backends |-> Validate(0)]
    /\ Healthy = [b \in Backends |-> TRUE]
    /\ FailCount = [b \in Backends |-> 0]
    /\ bmu = [b \in Backends |-> "free"]
    /\ result = [b \in Backends |-> "none"]
    /\ recovered = {}
    /\ hlog = <<>>
    /\ loop = "wait"
    /\ probe = [b \in Backends |-> "idle"]
    /\ cancelled = FALSE
    /\ rounds = 0
    /\ current = 0
    /\ rrmu = 0
    /\ lb = [t \in Tasks |-> NoFrame]
    /\ hist = <<>>
    /\ calls = 0
    /\ GatewayIdle
    /\ srv = "serving"
    /\ inbound = NoInbound
    /\ proxyReq = NoHeader
    /\ stage = "idle"
    /\ hop = 0
    /\ client \in ClientRequests
    /\ CORSIdle
    /\ ConcIdle
    /\ LogIdle
    /\ AdminIdle

NextHdr ==
    \/ Receive
    \/ CreateProxyRequest
    \/ SetForwardingHeaders
    \/ Forward

SpecHdr == InitHdr /\ [][NextHdr]_vars

\* ------------------------------------------------------------------- CORS
\* CORSMiddleware's default for an empty list.
DefaultOrigins(list) == IF Len(list) = 0 THEN <<"*">> ELSE list

\* A plausible slip: the list is matched without its wildcard.
isOriginAllowedExact(origin, allowed) == \E i \in DOMAIN allowed : allowed[i] = origin

\* isOriginAllowed
isOriginAllowed(origin, allowed) ==
    \E i \in DOMAIN allowed : allowed[i] = "*" \/ allowed[i] = origin

\* The allowOrigin the middleware computes for a request.
AllowOriginFor(origin, list) ==
    LET allowed == DefaultOrigins(list)
    IN  IF Len(allowed) > 0 /\ allowed[1] # "*"
        THEN IF isOriginAllowed(origin, allowed) THEN origin ELSE allowed[1]
        ELSE "*"

\* A request passes the CORS middleware, which sets the header.
CORSMiddleware ==
    /\ allowOrigin = "unset"
    /\ allowOrigin' = AllowOriginFor(corsOrigin, corsConfig)
    /\ UNCHANGED <<corsConfig, corsOrigin, hdrVars, auxVars, lifeVars, poolVars, healthVars, lbVars,
                   obsVars>>

\* The origins a list may name, and the Origin a request may carry ("" when
\* the header is absent).
ConfigOrigins == {"*", "https://a", "https://b"}

RequestOrigins == {"", "https://a", "https://b", "https://evil"}

InitCORS ==
    /\ Weight = [b \in Backends |-> Validate(0)]
    /\ Healthy = [b \in Backends |-> TRUE]
    /\ FailCount = [b \in Backends |-> 0]
    /\ bmu = [b \in Backends |-> "free"]
    /\ result = [b \in Backends |-> "none"]
    /\ recovered = {}
    /\ hlog = <<>>
    /\ loop = "wait"
    /\ probe = [b \in Backends |-> "idle"]
    /\ cancelled = FALSE
    /\ rounds = 0
    /\ current = 0
    /\ rrmu = 0
    /\ lb = [t \in Tasks |-> NoFrame]
    /\ hist = <<>>
    /\ calls = 0
    /\ GatewayIdle
    /\ srv = "serving"
    /\ HeadersIdle
    /\ corsConfig \in SeqsUpTo(ConfigOrigins, MaxOrigins)
    /\ corsOrigin \in RequestOrigins
    /\ allowOrigin = "unset"
    /\ ConcIdle
    /\ LogIdle
    /\ AdminIdle

NextCORS == CORSMiddleware

SpecCORS == InitCORS /\ [][NextCORS]_vars

\* ------------------------------------------------------ claims on SpecLB
Count(s, b) == Cardinality({i \in DOMAIN s : s[i] = b})

\* C1: with a static healthy set, every window of (sum of healthy weights)
\* consecutive successful selections returns each healthy backend exactly
\* `weight` times and no unhealthy backend, also across the overflow reset.
C1_WindowFairness ==
    Len(hist) = SumWeights(HealthyPool) =>
        \A b \in Backends : Count(hist, b) = IF Healthy[b] THEN Weight[b] ELSE 0

\* A full window that spans the overflow reset of the cursor.
C1_Witness ==
    /\ \A b \in Backends : Healthy[b]
    /\ Len(hist) = SumWeights(HealthyPool)
    /\ current > 0
    /\ current < SumWeights(HealthyPool)
    /\ calls = OverflowFactor * SumWeights(HealthyPool) + current

\* The weight of the first n backends of the pool, in declared order.
RECURSIVE PrefixWeight(_)
PrefixWeight(n) == IF n = 0 THEN 0 ELSE PrefixWeight(n - 1) + Weight[Pool[n]]

\* Entry k mod L of the list that repeats each backend `weight` consecutive
\* times in declared order.
ExpectedAt(k) ==
    LET r == k % PrefixWeight(Len(Pool))
    IN  Pool[CHOOSE i \in DOMAIN Pool : PrefixWeight(i - 1) <= r /\ r < PrefixWeight(i)]

\* C2: from a fresh balancer over an all-healthy pool the k-th selection is
\* entry k mod L of the virtual list; [(A,1),(B,1)] gives A, B, A, B and
\* [(A,2),(B,1)] gives A, A, B, A, A, B.
C2_FreshSequence ==
    \A t \in Tasks :
        (lb[t].pc = "ret" /\ \A b \in Backends : Healthy[b]) =>
            /\ lb[t].out = ExpectedAt(calls)
            /\ (Weight = [b \in Backends |-> 1] /\ calls < 4) =>
                   lb[t].out = <<"A", "B", "A", "B">>[calls + 1]
            /\ (Weight = [b \in Backends |-> IF b = "A" THEN 2 ELSE 1] /\ calls < 6) =>
                   lb[t].out = <<"A", "A", "B", "A", "A", "B">>[calls + 1]

\* The pool [(A,2),(B,1)] returns B as its third selection after the reset.
C2_Witness ==
    /\ \A b \in Backends : Healthy[b]
    /\ Weight = [b \in Backends |-> IF b = "A" THEN 2 ELSE 1]
    /\ lb[1].pc = "ret"
    /\ lb[1].out = "B"
    /\ calls = OverflowFactor * 3 + 2

InSeq(x, s) == \E i \in DOMAIN s : s[i] = x

\* C4: a NextBackend call fails exactly when no backend of the pool is healthy;
\* otherwise it returns a healthy backend of its snapshot, and the selection
\* never indexes outside the weighted list, whatever the cursor.
C4_FailsIffNoHealthy ==
    \A t \in Tasks :
        lb[t].pc = "ret" =>
            /\ lb[t].out # "panic"
            /\ (lb[t].out = "err") <=> (\A b \in Backends : ~Healthy[b])
            /\ lb[t].out # "err" => (InSeq(lb[t].out, lb[t].healthy) /\ Healthy[lb[t].out])

\* A call that failed on a pool with no healthy backend.
C4_Witness ==
    /\ \A b \in Backends : ~Healthy[b]
    /\ lb[1].pc = "ret"
    /\ lb[1].out = "err"

\* -------------------------------------------------- claims on SpecHealth
\* A NextBackend call of task t returns in this step.
Returns(t) == lb[t].pc = "scan" /\ lb'[t].pc = "ret"

\* The probe of backend b ends in this step.
ProbeEnds(b) == probe[b] = "inflight" /\ probe'[b] = "done"

\* C3 as stated: no NextBackend call returns a backend at a moment when that
\* backend is marked unhealthy, under every interleaving with the probes.
C3_Original ==
    [][\A t \in Tasks :
          (Returns(t) /\ lb'[t].out \in Backends) => Healthy[lb'[t].out]]_vars

\* C3, amended: a NextBackend call that begins after a backend was marked
\* unhealthy does not return that backend unless a probe of it has returned
\* 200 in the meantime.
C3_NoStaleAfterMark ==
    \A t \in Tasks : lb[t].pc = "ret" => lb[t].out \notin lb[t].down

\* A call that began while A was marked unhealthy and B was not has returned.
C3_Witness ==
    \E t \in Tasks :
        /\ lb[t].pc = "ret"
        /\ lb[t].down = {"A"}
        /\ FailCount["A"] >= MaxFails
        /\ lb[t].out = "B"

\* C5: a backend is unhealthy exactly when failCount >= 3; it starts healthy
\* with failCount 0; a failed probe adds exactly one to failCount and demotes
\* the backend only on reaching 3; a 200 probe sets healthy and failCount 0.
C5_HealthyIffBelowThreshold ==
    /\ \A b \in Backends : Healthy[b] /\ FailCount[b] = 0
    /\ [](\A b \in Backends : Healthy[b] <=> FailCount[b] < 3)
    /\ [][\A b \in Backends :
            /\ (ProbeEnds(b) /\ result'[b] = "200") =>
                   (Healthy'[b] /\ FailCount'[b] = 0)
            /\ (ProbeEnds(b) /\ result'[b] # "200") =>
                   /\ FailCount'[b] = FailCount[b] + 1
                   /\ (Healthy[b] /\ ~Healthy'[b]) => FailCount'[b] = 3
                   /\ ~Healthy[b] => ~Healthy'[b]
            /\ ~ProbeEnds(b) =>
                   (Healthy'[b] = Healthy[b] /\ FailCount'[b] = FailCount[b])]_vars

\* A backend demoted by its third consecutive failed probe.
C5_Witness ==
    \E b \in Backends : ~Healthy[b] /\ FailCount[b] = 3 /\ result[b] = "error"

\* C6: every round probes every backend, unhealthy ones included, and ends only
\* when all probes are done; one 200 probe makes an unhealthy backend healthy;
\* from then on the balancer's snapshot contains it again.
C6_ProbedAndRecovers ==
    [][/\ (loop' \in {"first", "round"} /\ loop' # loop) =>
              \A b \in Backends : probe'[b] = "spawned"
       /\ (loop \in {"first", "round"} /\ loop' # loop) =>
              \A b \in Backends : probe[b] = "done"
       /\ \A b \in Backends :
              (ProbeEnds(b) /\ result'[b] = "200") => (Healthy'[b] /\ FailCount'[b] = 0)
       /\ \A t \in Tasks :
              (lb[t].pc = "scan" /\ lb'[t].pc = "scan" /\ lb'[t].i = lb[t].i + 1) =>
                  (Healthy[Pool[lb[t].i]] <=> InSeq(Pool[lb[t].i], lb'[t].healthy))]_vars

\* A backend that went unhealthy and was brought back by a 200 probe is
\* returned by the balancer.
C6_Witness ==
    \E t \in Tasks :
        /\ lb[t].pc = "ret"
        /\ lb[t].out \in recovered
        /\ rounds >= MaxFails

\* -------------------------------------------------------- claims on Spec
\* Task t accepts a new request in this step.
Arrives(t) == req[t].pc = "idle" /\ req'[t].pc # "idle"

\* C7: every request the gateway has answered has a log record, and the
\* record's status is the status the client observed (429, 502, 503, 500 from
\* panic recovery and 204 from the CORS preflight included).
C7_Original ==
    \A t \in Tasks : req[t].pc = "done" => req[t].logged = req[t].status

\* C8: with the global limiter enabled, a request that cannot take a token is
\* answered 429 with X-RateLimit-Limit, X-RateLimit-Remaining: 0 and the body
\* "Rate limit exceeded", and nothing downstream runs: no backend is selected,
\* the cursor does not move, no upstream request is issued.
C8_RefusedStopsAtLimiter ==
    /\ [](\A t \in Tasks :
             req[t].rl = "reject" =>
                 /\ cfg.rl
                 /\ req[t].pc = "done"
                 /\ req[t].status = 429
                 /\ req[t].limitHdr # ""
                 /\ req[t].remainingHdr = "0"
                 /\ req[t].body = "Rate limit exceeded"
                 /\ lb[t].pc = "none"
                 /\ req[t].backend = ""
                 /\ req[t].sent = 0)
    /\ [][\A t \in Tasks :
            (Arrives(t) /\ cfg.rl /\ tokens = 0
                 /\ ~(cfg.cors /\ req'[t].method = "OPTIONS")) =>
                (req'[t].rl = "reject" /\ current' = current /\ lb' = lb)]_vars

\* A GET on the proxied route refused while a backend is healthy.
C8_Witness ==
    \E t \in Tasks :
        /\ req[t].rl = "reject"
        /\ req[t].method = "GET"
        /\ req[t].path = "/api/users"
        /\ \E b \in Backends : Healthy[b]

Min(a, b) == IF a <= b THEN a ELSE b

\* C9: the bucket never holds more than `burst` tokens nor fewer than 0; the
\* limiter lets through at most `burst` requests plus what the refill added,
\* and with no refill exactly min(N, burst) of N requests pass.
C9_TokenBucket ==
    cfg.rl =>
        /\ tokens >= 0
        /\ tokens <= cfg.burst
        /\ passed <= cfg.burst + refills
        /\ refills = 0 => passed = Min(passed + rejected, cfg.burst)

\* Burst 2 and three requests without refill: two pass, one is refused.
C9_Witness ==
    /\ cfg.rl
    /\ cfg.burst = 2
    /\ refills = 0
    /\ passed = 2
    /\ rejected = 1

\* C10: with CORS enabled an OPTIONS request ends in the CORS middleware with
\* status 204: the limiter is not consulted and no token is taken, no backend
\* is selected and no upstream request is issued, for any path and Origin.
C10_PreflightTerminated ==
    /\ [](\A t \in Tasks :
             (cfg.cors /\ req[t].method = "OPTIONS") =>
                 /\ req[t].pc = "done"
                 /\ req[t].status = 204
                 /\ req[t].rl = "none"
                 /\ lb[t].pc = "none"
                 /\ req[t].backend = ""
                 /\ req[t].sent = 0)
    /\ [][\A t \in Tasks :
            (Arrives(t) /\ cfg.cors /\ req'[t].method = "OPTIONS") =>
                (tokens' = tokens /\ current' = current /\ lb' = lb)]_vars

\* OPTIONS /api/users with an Origin, answered 204 with the bucket untouched.
C10_Witness ==
    \E t \in Tasks :
        /\ cfg.cors
        /\ cfg.rl
        /\ req[t].method = "OPTIONS"
        /\ req[t].path = "/api/users"
        /\ req[t].origin = "https://x"
        /\ req[t].status = 204
        /\ tokens = cfg.burst
        /\ cfg.burst > 0

\* C11: a panic in a handler is trapped by the recovery middleware: the
\* client gets 500 with a body containing "Panic:", the panicking request
\* holds no lock afterwards (the balancer's mutex is held only by a task that
\* is inside NextBackend), and a request that arrives later is answered as
\* usual.
C11_PanicTrapped ==
    /\ \A t \in Tasks :
           req[t].panicAt # "" =>
               /\ req[t].pc = "done"
               /\ req[t].status = 500
               /\ req[t].body = "Panic:"
               /\ lb[t].pc = "none"
               /\ rrmu # t
    /\ rrmu # 0 => lb[rrmu].pc = "scan"
    /\ \A b \in Backends : bmu[b] = "free"
    /\ \A t \in Tasks :
           (req[t].sawPanic /\ req[t].pc = "done" /\ req[t].panicAt = "") =>
               /\ req[t].body # "Panic:"
               /\ req[t].status \in {200, 204, 404, 429, 500, 502, 503}
               /\ req[t].status = 500 => req[t].up \in {"500", "build"}

\* A panic struck inside NextBackend, with the balancer's mutex held, and a
\* request that arrived afterwards was proxied and answered 200.
C11_Witness ==
    \E t, u \in Tasks :
        /\ req[u].panicAt = "scan"
        /\ req[u].status = 500
        /\ req[t].sawPanic
        /\ req[t].pc = "done"
        /\ req[t].status = 200
        /\ req[t].backend \in Backends

\* -------------------------------------------------------- claims on SpecLife
\* C12 as stated: Shutdown returns without error only when the in-flight
\* requests have finished, and every request that arrives after Shutdown has
\* begun is refused.
C12_Original ==
    [][/\ srv' = "stopped" => \A t \in Tasks : req[t].pc = "idle"
       /\ \A t \in Tasks : Arrives(t) => srv = "serving"]_vars

\* C12, amended: Shutdown returns without error only when the in-flight
\* requests have finished; a proxied request that returns while Shutdown is
\* under way gets what the upstream answered (stopping the pools does not
\* cancel it, and no step of Shutdown touches a request); every request that
\* arrives after the listener has been closed is refused.
C12_DrainsInFlight ==
    /\ [](srv = "stopped" => \A t \in Tasks : req[t].pc = "idle")
    /\ [](\A t \in Tasks :
             (req[t].pc = "done" /\ req[t].ctx = "live" /\ req[t].resp # "") =>
                 /\ req[t].up = req[t].resp
                 /\ req[t].resp = "200" => (req[t].status = 200 /\ req[t].body = "upstream")
                 /\ req[t].resp = "500" => (req[t].status = 500 /\ req[t].body = "upstream"))
    /\ [][/\ srv' # srv => req' = req
          /\ \A t \in Tasks : Arrives(t) => srv \in {"serving", "stopping"}]_vars

\* A proxied request that was in flight when the listener was closed has got
\* its upstream's 200 while Shutdown was waiting.
C12_Witness ==
    \E t \in Tasks :
        /\ srv = "draining"
        /\ cancelled
        /\ req[t].pc = "done"
        /\ req[t].retAt = "draining"
        /\ req[t].resp = "200"
        /\ req[t].status = 200

\* C13: once Shutdown has returned, also by the expiry of its deadline, no
\* handler of the server is still running.
C13_Original ==
    srv \in {"stopped", "expired"} => \A t \in Tasks : req[t].pc = "idle"

\* The outcome of a proxied request that the handler has answered.
ProxyAnswered(t) ==
    /\ req[t].pc = "done"
    /\ Route(req[t].method, req[t].path) = "proxy"
    /\ req[t].panicAt = ""

\* C14: a proxied request has exactly one outcome and at most one upstream
\* attempt: 503 when no backend is healthy, 500 when the outbound request
\* cannot be built, 502 when the upstream call fails, else the upstream's own
\* status and body; a failed attempt is not retried, whatever else is healthy.
C14_OneOutcome ==
    \A t \in Tasks :
        /\ req[t].sent <= 1
        /\ ProxyAnswered(t) =>
               /\ (req[t].backend = "") <=> (\A b \in Backends : ~Healthy[b])
               /\ req[t].backend = "" =>
                      (req[t].status = 503 /\ req[t].sent = 0 /\ req[t].up = "")
               /\ req[t].backend # "" => req[t].up \in {"build", "error", "200", "500"}
               /\ req[t].up = "build" => (req[t].status = 500 /\ req[t].sent = 0)
               /\ req[t].up = "error" => (req[t].status = 502 /\ req[t].sent = 1)
               /\ req[t].up = "200" =>
                      (req[t].status = 200 /\ req[t].body = "upstream" /\ req[t].sent = 1)
               /\ req[t].up = "500" =>
                      (req[t].status = 500 /\ req[t].body = "upstream" /\ req[t].sent = 1)

\* A request answered 502 after one attempt while the other backend is healthy.
C14_Witness ==
    \E t \in Tasks :
        /\ ProxyAnswered(t)
        /\ req[t].status = 502
        /\ req[t].sent = 1
        /\ req[t].ctx = "live"
        /\ \E b \in Backends : b # req[t].backend /\ Healthy[b]

\* C15: when the inbound context is cancelled, or the handler's timeout
\* passes, while the outbound call is pending, the call fails without an
\* upstream response and the handler ends with 502.
C15_CancelPropagates ==
    \A t \in Tasks :
        (ProxyAnswered(t) /\ req[t].sent = 1 /\ req[t].ctx # "live") =>
            /\ req[t].up = "error"
            /\ req[t].resp = ""
            /\ req[t].status = 502

\* The client of a request sent to a healthy backend went away, and the
\* handler has ended.
C15_Witness ==
    \E t \in Tasks :
        /\ ProxyAnswered(t)
        /\ req[t].ctx = "cancelled"
        /\ req[t].status = 502
        /\ Healthy[req[t].backend]

\* --------------------------------------------------------- claims on SpecHdr
\* The part of a string before its first comma.
ClaimFirstElement(s) ==
    LET n == CHOOSE m \in 0..Len(s) :
                 (m = Len(s) \/ s[m + 1] = ",") /\ \A i \in 1..m : s[i] # ","
    IN  SubSeq(s, 1, n)

\* A string without its leading and trailing blanks.
ClaimTrimmed(s) ==
    LET solid == {i \in DOMAIN s : s[i] # " "}
    IN  IF solid = {} THEN <<>>
        ELSE SubSeq(s, CHOOSE i \in solid : \A j \in solid : i <= j,
                       CHOOSE i \in solid : \A j \in solid : j <= i)

\* The first n values of a header as one comma-separated list.
RECURSIVE ClaimJoined(_, _)
ClaimJoined(v, n) ==
    IF n = 1 THEN v[1] ELSE ClaimJoined(v, n - 1) \o <<",", " ">> \o v[n]

\* host:port without ":port".
ClaimPeer(a) ==
    IF Len(a) >= 3 /\ a[Len(a) - 1] = ":" THEN SubSeq(a, 1, Len(a) - 2) ELSE a

\* The clientIP of the inbound request: the first trimmed element of its
\* X-Forwarded-For, else its X-Real-IP, else the peer address without port.
ClaimClientIP ==
    LET xff == inbound.Header["X-Forwarded-For"]
        xri == inbound.Header["X-Real-Ip"]
    IN  IF xff # <<>> /\ xff[1] # <<>> THEN ClaimTrimmed(ClaimFirstElement(xff[1]))
        ELSE IF xri # <<>> /\ xri[1] # <<>> THEN xri[1]
        ELSE ClaimPeer(inbound.RemoteAddr)

\* C16: the outbound X-Forwarded-For is clientIP when the inbound request has
\* no X-Forwarded-For, and the inbound X-Forwarded-For followed by ", " and
\* clientIP when it has one; the outbound X-Real-IP is clientIP.
C16_ForwardedFor ==
    stage = "sent" =>
        LET xff == inbound.Header["X-Forwarded-For"]
        IN  /\ proxyReq["X-Forwarded-For"] =
                   <<IF xff = <<>> THEN ClaimClientIP
                     ELSE ClaimJoined(xff, Len(xff)) \o <<",", " ">> \o ClaimClientIP>>
            /\ proxyReq["X-Real-Ip"] = <<ClaimClientIP>>

\* An inbound "X-Forwarded-For:  p " and an X-Real-IP leave the first gateway
\* as " p , p" with X-Real-IP p.
C16_Witness ==
    /\ stage = "sent"
    /\ hop = 1
    /\ inbound.Header["X-Forwarded-For"] = << <<" ", "p", " ">> >>
    /\ inbound.Header["X-Real-Ip"] = << <<"r">> >>
    /\ proxyReq["X-Forwarded-For"] = << <<" ", "p", " ", ",", " ", "p">> >>
    /\ proxyReq["X-Real-Ip"] = << <<"p">> >>

\* C17: a request that carried no X-Forwarded-For leaves the second of two
\* chained gateways with the list "client, first gateway": the hops in order.
C17_Original ==
    (hop = 2 /\ stage = "sent" /\ client.Wire["X-Forwarded-For"] = <<>>) =>
        proxyReq["X-Forwarded-For"] =
            <<ClaimPeer(client.RemoteAddr) \o <<",", " ">> \o ClaimPeer(GatewayAddr(1))>>

\* The hop-by-hop headers as the claim names them.
ClaimHopByHop ==
    {"Connection", "Keep-Alive", "Proxy-Authenticate", "Proxy-Authorization", "TE",
     "Trailers", "Transfer-Encoding", "Upgrade"}

\* C18: none of the hop-by-hop headers is on the outbound request, whatever
\* the inbound request carried, and every other inbound header is copied with
\* all its values (the forwarding headers are then rewritten).
C18_HopByHopDropped ==
    stage \in {"created", "sent"} =>
        /\ \A n \in ClaimHopByHop : proxyReq[CanonicalKey(n)] = <<>>
        /\ \A k \in HeaderKeys \ {CanonicalKey(n) : n \in ClaimHopByHop} :
               (stage = "created" \/ k \notin {"X-Forwarded-For", "X-Real-Ip",
                                               "X-Forwarded-Proto", "X-Forwarded-Host"}) =>
                   proxyReq[k] = inbound.Header[k]
        /\ hop = 1 =>
               \A n \in WireNames \ ClaimHopByHop :
                   (stage = "created" \/ n \notin {"X-Forwarded-For", "X-Real-IP"}) =>
                       proxyReq[CanonicalKey(n)] = client.Wire[n]

\* A request with TE and a two-valued Accept: TE is gone, Accept is whole.
C18_Witness ==
    /\ stage = "created"
    /\ client.Wire["TE"] = << <<"v">> >>
    /\ client.Wire["Accept"] = << <<"v">>, <<"w">> >>
    /\ proxyReq["Te"] = <<>>
    /\ proxyReq["Accept"] = << <<"v">>, <<"w">> >>

\* -------------------------------------------------------- claims on SpecCORS
\* The configured list names the origin.
Listed(origin) == \E i \in DOMAIN corsConfig : corsConfig[i] = origin

\* C19 as stated: the header is the request's Origin when the list names it,
\* else the first configured origin, and "*" when none is configured, for
\* every list, "*" in any position included.
C19_Original ==
    allowOrigin # "unset" =>
        allowOrigin = IF corsConfig = <<>> THEN "*"
                      ELSE IF Listed(corsOrigin) THEN corsOrigin
                      ELSE corsConfig[1]

\* C19, amended: the header is "*" when no origin is configured or the first
\* configured origin is "*"; otherwise it is the request's Origin when the
\* list names that origin or contains "*", else the first configured origin.
C19_AllowOrigin ==
    allowOrigin # "unset" =>
        allowOrigin = IF corsConfig = <<>> \/ corsConfig[1] = "*" THEN "*"
                      ELSE IF Listed(corsOrigin) \/ Listed("*") THEN corsOrigin
                      ELSE corsConfig[1]

\* The list [https://a, *] echoes an origin it does not name.
C19_Witness ==
    /\ corsConfig = <<"https://a", "*">>
    /\ corsOrigin = "https://evil"
    /\ allowOrigin = "https://evil"

\* ------------------------------------------------ more claims on SpecHealth
\* C20: no lock is held across a suspension point: a backend's lock is not
\* held while its probe's request is in flight, and a NextBackend call, which
\* holds the cursor mutex, never finds the lock of the backend it reads taken.
C20_Original ==
    /\ \A b \in Backends : probe[b] = "inflight" => bmu[b] = "free"
    /\ \A t \in Tasks :
           (lb[t].pc = "scan" /\ lb[t].i <= Len(Pool)) => bmu[Pool[lb[t].i]] = "free"

\* -------------------------------------------------------- claims on SpecConc
\* The weight of the healthy backends among the first n of the pool.
RECURSIVE HealthyPrefix(_)
HealthyPrefix(n) ==
    IF n = 0 THEN 0
    ELSE HealthyPrefix(n - 1) + (IF Healthy[Pool[n]] THEN Weight[Pool[n]] ELSE 0)

\* What the (k+1)-th of a run of sequential calls returns: entry k mod L of
\* the healthy backends, each repeated `weight` times in declared order.
ClaimSequential(k) ==
    LET r == k % HealthyPrefix(Len(Pool))
    IN  Pool[CHOOSE i \in DOMAIN Pool :
                 Healthy[Pool[i]] /\ HealthyPrefix(i - 1) <= r /\ r < HealthyPrefix(i)]

\* The calls whose selection has given them backend b.
Given(b) ==
    Count(hist, b) + Cardinality({t \in Tasks : lb[t].pc \in {"advance", "ret"} /\ lb[t].out = b})

\* C21: with a static healthy set, the calls of concurrent tasks read distinct
\* consecutive cursor values, 0, 1, 2, ..., none skipped and none read twice,
\* and the backends they are given are, as a multiset, those of as many
\* sequential calls.
C21_NoSkipNoDuplicate ==
    /\ reads = [k \in 1..Len(reads) |-> k - 1]
    /\ \A b \in Backends :
           Given(b) = Cardinality({k \in 0..(Len(reads) - 1) : ClaimSequential(k) = b})
    /\ \A t, u \in Tasks : (rd[t] # -1 /\ rd[u] # -1) => t = u

\* Over the pool [(A,2),(B,1)] a task has read the third cursor value while
\* the other task waits for the mutex.
C21_Witness ==
    /\ Weight = [b \in Backends |-> IF b = "A" THEN 2 ELSE 1]
    /\ \A b \in Backends : Healthy[b]
    /\ lb[2].pc = "advance"
    /\ lb[2].out = "B"
    /\ lb[1].pc = "lock"
    /\ reads = <<0, 1, 2>>

\* ------------------------------------------------- more claims on SpecLB
\* C22 as stated: each successful selection advances the cursor by exactly
\* one, under the cursor lock, and the cursor goes back to 0 only once it
\* exceeds 1000 times the weighted cardinality of the call's healthy set; it
\* is never negative.
C22_Original ==
    /\ [](current >= 0)
    /\ [][/\ \A t \in Tasks :
                (Returns(t) /\ lb'[t].out \in Backends) =>
                    /\ rrmu = t
                    /\ \/ current' = current + 1
                       \/ /\ current' = 0
                          /\ current + 1 > SumWeights(lb[t].healthy) * 1000
          /\ current' # current =>
                \E t \in Tasks : Returns(t) /\ lb'[t].out \in Backends]_vars

\* C22, amended: each successful selection, under the cursor lock, leaves the
\* cursor one higher, or at 0 when that would reach or exceed 1000 times the
\* weighted cardinality of the call's healthy set; nothing else moves the
\* cursor, and it is never negative.
C22_CursorStep ==
    /\ [](current >= 0)
    /\ [][/\ \A t \in Tasks :
                (Returns(t) /\ lb'[t].out \in Backends) =>
                    /\ rrmu = t
                    /\ current' = IF current + 1 >= SumWeights(lb[t].healthy) * 1000
                                  THEN 0 ELSE current + 1
          /\ current' # current =>
                \E t \in Tasks : Returns(t) /\ lb'[t].out \in Backends]_vars

\* The selection that read cursor 1000 * 3 - 1 over the pool [(A,2),(B,1)] has
\* left the cursor at 0.
C22_Witness ==
    /\ Weight = [b \in Backends |-> IF b = "A" THEN 2 ELSE 1]
    /\ \A b \in Backends : Healthy[b]
    /\ lb[1].pc = "ret"
    /\ calls = 1000 * 3 - 1
    /\ current = 0

\* -------------------------------------------------- claims on SpecHealth
\* A probe goroutine is created for backend b in this step.
ProbeIssued(b) == probe'[b] = "spawned" /\ probe[b] # "spawned"

\* C23: the probes of a round are issued together, one per backend; the round
\* ends only when each has returned; a probe is issued only when every probe
\* before it has been joined, so a backend never has two probes in flight,
\* and its lock is held exactly while its one probe is in flight.
C23_RoundsJoined ==
    /\ [](\A b \in Backends :
             /\ probe[b] # "idle" => loop \in {"first", "round"}
             /\ bmu[b] = "held" <=> probe[b] = "inflight")
    /\ [][/\ (\E b \in Backends : ProbeIssued(b)) =>
                \A b \in Backends : probe[b] = "idle" /\ ProbeIssued(b)
          /\ (loop \in {"first", "round"} /\ loop' = "wait") =>
                \A b \in Backends : probe[b] = "done"]_vars

\* In the second ticker round the probes of both backends are in flight at
\* once.
C23_Witness ==
    /\ loop = "round"
    /\ rounds = 2
    /\ \A b \in Backends : probe[b] = "inflight"

C25_Original ==
    [][/\ cancelled => ~\E b \in Backends : ProbeIssued(b)
       /\ loop = "exit" => loop' = "exit"]_vars

\* --------------------------------------------------------- claims on SpecLog
\* C26: the save goroutines pending at one time stay below a fixed bound,
\* however slow the sink and however many requests complete: with the sink
\* stalled they are fewer than the requests the gateway has answered.
C26_Original == BagCardinality(saves) < MaxRequests

\* The chain of task t returns in this step.
ChainReturns(t) == req[t].pc = "done" /\ req'[t].pc = "idle"

\* C27: the logging middleware can return whatever saves are pending; the
\* client is sent the status and body the handler wrote; and the end of a
\* save, failed or not, changes neither a response already sent nor one
\* being produced.
C27_SaveDetached ==
    /\ [](\A t \in Tasks : req[t].pc = "done" => ENABLED LoggingReturn(t))
    /\ [][/\ \A t \in Tasks :
                ChainReturns(t) =>
                    delivered' = delivered (+)
                        SetToBag({[status |-> req[t].status, body |-> req[t].body]})
          /\ BagCardinality(saves') < BagCardinality(saves) =>
                (delivered' = delivered /\ req' = req)]_vars

\* Three clients have their responses while one save has failed and two
\* have not returned.
C27_Witness ==
    /\ BagCardinality(delivered) = 3
    /\ saveErrs = 1
    /\ BagCardinality(saves) = 2

\* NextBackend hands its result to the handler of task t in this step.
Selected(t) == req[t].pc = "proxy" /\ lb[t].pc = "ret" /\ lb'[t].pc = "none"

\* C28: the handler sets the "backend" attribute to the backend it was given
\* before the upstream call is made, and to nothing when it was given none;
\* the log entry carries the attribute as it is when the chain returns, also
\* for a 502; an entry has no backend exactly when none was selected (503,
\* 429, 404).
C28_BackendRecorded ==
    /\ [](\A t \in Tasks :
             /\ req[t].pc = "upstream" => req[t].backend \in Backends
             /\ req[t].pc = "done" =>
                    /\ req[t].backend = "" <=> req[t].status \in {503, 429, 404}
                    /\ req[t].status = 502 => req[t].backend \in Backends)
    /\ [][\A t \in Tasks :
            /\ Selected(t) =>
                   req'[t].backend = IF lb[t].out \in Backends THEN lb[t].out ELSE ""
            /\ (~Selected(t) /\ ~Arrives(t) /\ ~ChainReturns(t)) =>
                   req'[t].backend = req[t].backend
            /\ ChainReturns(t) =>
                   saves' = saves (+)
                       SetToBag({[StatusCode |-> req[t].status, Backend |-> req[t].backend]})]_vars

\* The entry of a request that A failed (502) and the entry of one the
\* limiter refused are waiting to be saved.
C28_Witness ==
    /\ BagIn([StatusCode |-> 502, Backend |-> "A"], saves)
    /\ BagIn([StatusCode |-> 429, Backend |-> ""], saves)

\* C29: each change of a backend's health flag is logged once: the step that
\* demotes a healthy backend adds one "marked unhealthy" line, the step in
\* which a 200 probe brings an unhealthy backend back adds one "recovered"
\* line, and no other step adds either.
C29_Original ==
    [][\A b \in Backends :
          /\ (Healthy[b] /\ ~Healthy'[b]) =>
                 hlog'[b] = [hlog[b] EXCEPT !.unhealthy = @ + 1]
          /\ (~Healthy[b] /\ Healthy'[b]) =>
                 hlog'[b] = [hlog[b] EXCEPT !.recovered = @ + 1]
          /\ Healthy'[b] = Healthy[b] => hlog'[b] = hlog[b]]_vars

\* -------------------------------------------------------- claims on SpecLock
\* Task t waits for the lock of backend b, in IsHealthy or in GetURL.
WaitsOnBackend(t, b) ==
    /\ bmu[b] = "held"
    /\ \/ lb[t].pc = "scan" /\ lb[t].i <= Len(Pool) /\ Pool[lb[t].i] = b
       \/ lb[t].pc = "ret" /\ lb[t].out = b

\* The probe that holds the lock of backend b can run to its unlock.
CanRelease(b) == ENABLED ProbeFinish(b, "error")

\* C30: no set of tasks waits for each other's locks: the probe that holds a
\* backend's lock waits for no lock, and the task that holds the balancer's
\* mutex either can take its next step or waits for a backend's lock, whose
\* holder can release it; the pool's lock has readers only.
C30_NoWaitCycle ==
    /\ \A b \in Backends : bmu[b] = "held" => CanRelease(b)
    /\ rrmu # 0 =>
           \/ ENABLED LBScan(rrmu)
           \/ ENABLED LBSelect(rrmu)
           \/ \E b \in Backends : WaitsOnBackend(rrmu, b) /\ CanRelease(b)
    /\ \A t \in PoolReaders : rrmu = t

\* Task 1 waits for the balancer's mutex, held by task 2, which waits in
\* IsHealthy for the lock of A, held by A's probe; the admin handler waits
\* for the same lock.
C30_Witness ==
    /\ lb[1].pc = "lock"
    /\ rrmu = 2
    /\ WaitsOnBackend(2, "A")
    /\ probe["A"] = "inflight"
    /\ adm = 1

\* -------------------------------------------------- claims on SpecPassive
\* C31: a backend's Healthy flag and FailCount change only in a step in which
\* its own probe ends (no answer to a client, no NextBackend call and no admin
\* read changes them); the flag drops only at the probe that is the third
\* failure in a row, and until then the backend stays selectable.
C31_OnlyProbesMark ==
    [][\A b \in Backends :
           /\ (Healthy'[b] # Healthy[b] \/ FailCount'[b] # FailCount[b]) => ProbeEnds(b)
           /\ (Healthy[b] /\ ~Healthy'[b]) =>
                  (result'[b] # "200" /\ FailCount'[b] = MaxFails)
           /\ (Healthy[b] /\ FailCount'[b] < MaxFails) => Healthy'[b]]_vars

\* Every task holds a failed answer (502 or 500, one of them after the
\* handler's timeout) from the same backend, the admin handler has read the
\* whole pool, the round is over, and that backend is still in rotation while
\* the other one has been taken out by its third failed probe.
C31_Witness ==
    \E b \in Backends :
        /\ Healthy[b]
        /\ \A t \in Tasks :
               req[t].pc = "done" /\ req[t].backend = b /\ req[t].status \in {500, 502}
        /\ \E t \in Tasks : req[t].ctx = "deadline" /\ req[t].status = 502
        /\ adm > 2 * Len(Pool)
        /\ loop = "wait"
        /\ rounds = MaxRounds
        /\ \E c \in Backends : ~Healthy[c] /\ FailCount[c] = MaxFails

\* C32 as stated: once Stop() has cancelled the pool's context, the end of a
\* probe (one that was in flight when Stop() was called included) changes
\* neither the backend's Healthy flag nor its FailCount.
C32_Original ==
    [][\A b \in Backends :
           (cancelled /\ ProbeEnds(b)) =>
               (Healthy'[b] = Healthy[b] /\ FailCount'[b] = FailCount[b])]_vars

\* ---------------------------------------------------- claims on SpecBuild
\* C33 as stated: when NewServer has returned an error, no pool it started is
\* left running: each has been stopped (its context cancelled).
C33_Original == srv = "failed" => (loop = "new" \/ cancelled)

====
